---- MODULE Spec2Model ----
(***************************************************************************)
(* Model of the style-encapsulation selector engine                        *)
(* (src/unnamed/part_001, imported as ./style_encapsulation by             *)
(* src/packages/compiler/src/shadow_css.ts).                               *)
(*                                                                         *)
(* A selector is a sequence of nodes; a node is a record                   *)
(*   [type, value, nodes]                                                  *)
(* as in postcss-selector-parser: a pseudo's nodes are its argument        *)
(* selectors, a selector's nodes are its children, every other node has    *)
(* no children.  Positions are 1-based (the source's index k is k+1).      *)
(***************************************************************************)
EXTENDS Integers, Sequences, FiniteSets, TLC

VARIABLES
    phase,              \* which part of the program is running
    input,              \* the selector as parsed from the rule
    legacy,             \* StyleEncapsulationOptions.legacy
    list,               \* the selector list (Root) of the rule
    cur,                \* position in list of the selector being shimmed
    nodes,              \* selector.nodes of the selector being worked on
    idx,                \* position of selector.each's callback (0: no loop)
    seenDeep,           \* shimSelector locals
    seenHost,
    needsContentClass,
    containsHostPseudo,
    err,                \* message of the error thrown, "" when none
    last,               \* the last engine call: [op, anchor, batch, before]
    nodePermutations,   \* history: the arrangements getNodePermutations made
    shimInput,          \* history: the list as rewriteHostContext left it
    sheet,              \* the style rules of the stylesheet, in walkRules order
    ruleNo,             \* how many rules walkRules has visited
    site,               \* throwFor: the parent chain of the node it is given
    current,            \* throwFor: how many parent links `current` is above node
    count,              \* throwFor: its hop counter
    transformed,        \* DiagnosticMapper: the TransformedSourceFile of "a.ts"
    markerCache,        \* DiagnosticMapper.markerCache, its entry for "a.ts"
    diagnostic,         \* the diagnostic mapDiagnostic was last given
    mapped              \* the diagnostic mapDiagnostic last returned

vars == <<phase, input, legacy, list, cur, nodes, idx, seenDeep, seenHost,
          needsContentClass, containsHostPseudo, err, last, nodePermutations,
          shimInput, sheet, ruleNo, site, current, count,
          transformed, markerCache, diagnostic, mapped>>

mapperVars == <<transformed, markerCache, diagnostic, mapped>>

(***************************************************************************)
(* Nodes                                                                   *)
(***************************************************************************)
Leaf(t, v) == [type |-> t, value |-> v, nodes |-> <<>>]
Tag(v) == Leaf("tag", v)
Universal == Leaf("universal", "*")
ClassName(v) == Leaf("class", v)
Comment(v) == Leaf("comment", v)

\* parser.selector({nodes, value: ''})
SelectorNode(children) == [type |-> "selector", value |-> "", nodes |-> children]

\* parser.attribute({attribute, raws: {}, value: undefined}): the marker [name]
attribute(name) == Leaf("attribute", name)

\* parser.combinator({value})
combinator(v) == Leaf("combinator", v)

\* parser.pseudo({value}) without arguments
pseudo(v) == Leaf("pseudo", v)

\* parser.pseudo({value, nodes: [selector]}): a pseudo with one argument
PseudoArg(v, children) ==
    [type |-> "pseudo", value |-> v, nodes |-> <<SelectorNode(children)>>]

descendantCombinator == combinator(" ")

hostPseudo == pseudo(":host")

\* unscoped(selector): :UNSCOPED wrapping the given selector node
unscoped(sel) == [type |-> "pseudo", value |-> ":UNSCOPED", nodes |-> <<sel>>]

\* The configured marker names (defaults of plugin's opts).
ContentClass == "content"
HostClass == "host"

isCombinator(n) == n.type = "combinator"
isComment(n) == n.type = "comment"
isPseudo(n) == n.type = "pseudo"
isTag(n) == n.type = "tag"
isUniversal(n) == n.type = "universal"

\* The pseudo values of the model that the parser's isPseudoElement accepts:
\* those that start with "::" and the four one-colon legacy pseudo-elements.
PseudoElementValues ==
    {"::before", "::after", "::ng-deep",
     ":before", ":after", ":first-letter", ":first-line"}

isPseudoElement(n) == isPseudo(n) /\ n.value \in PseudoElementValues

(***************************************************************************)
(* Container: the node array together with the index of a running each().  *)
(* c = [nodes, idx]; an insertion at or before the running index moves the *)
(* index on by one, a removal at or before it moves it back by one.        *)
(***************************************************************************)
Cont(ns, i) == [nodes |-> ns, idx |-> i]

\* insertBefore(node at p, n), insertAfter(node at p - 1, n), append (p =
\* length + 1) and prepend (p = 1): n stands at position p afterwards.
InsertAt(c, p, n) ==
    Cont(SubSeq(c.nodes, 1, p - 1) \o <<n>> \o SubSeq(c.nodes, p, Len(c.nodes)),
         IF c.idx >= p THEN c.idx + 1 ELSE c.idx)

\* node.remove() of the node at p
RemoveAt(c, p) ==
    Cont(SubSeq(c.nodes, 1, p - 1) \o SubSeq(c.nodes, p + 1, Len(c.nodes)),
         IF c.idx >= p THEN c.idx - 1 ELSE c.idx)

\* node.replaceWith(n) of the node at p: insertBefore, then remove
ReplaceAt(c, p, n) == RemoveAt(InsertAt(c, p, n), p + 1)

(***************************************************************************)
(* Safe insertion.  A result is [ok, err, nodes, idx, at, ins]: the        *)
(* container afterwards, where the anchor node stands now (at) and where   *)
(* the inserted node stands (ins).  A throw is ok = FALSE with the         *)
(* container as it was when the error was raised.                          *)
(***************************************************************************)
Ok(c, a, i) ==
    [ok |-> TRUE, err |-> "", nodes |-> c.nodes, idx |-> c.idx, at |-> a, ins |-> i]

\* throwFor(node, message)
Throw(c, a, msg) ==
    [ok |-> FALSE, err |-> msg, nodes |-> c.nodes, idx |-> c.idx, at |-> a, ins |-> 0]

ErrCannotInsert == "Cannot insert a combinator or comment"
ErrHasTag == "already contains a tag"
ErrHasPseudoElement == "already contains a pseudo-element"
ErrHasCombinator == "contains a combinator"

\* Where the anchor stands after an insertion at p.
Shift(a, p) == IF p <= a THEN a + 1 ELSE a

Min(S) == CHOOSE x \in S : \A y \in S : x <= y
Max(S) == CHOOSE x \in S : \A y \in S : x >= y

\* Mutant: a universal node is passed over like any other node.
safeInsertTagKeepUniversal(c, a, toInsert) ==
    IF {q \in 1..a : isCombinator(c.nodes[q]) \/ isTag(c.nodes[q])} = {}
    THEN Ok(InsertAt(c, 1, toInsert), a + 1, 1)
    ELSE IF isTag(c.nodes[Max({q \in 1..a : isCombinator(c.nodes[q]) \/ isTag(c.nodes[q])})])
    THEN Throw(c, a, ErrHasTag)
    ELSE Ok(InsertAt(c, Max({q \in 1..a : isCombinator(c.nodes[q])}) + 1, toInsert),
            Shift(a, Max({q \in 1..a : isCombinator(c.nodes[q])}) + 1),
            Max({q \in 1..a : isCombinator(c.nodes[q])}) + 1)

\* Mutant: a tag that is already there is passed over like any other node.
safeInsertTagNoDuplicateCheck(c, a, toInsert) ==
    IF {q \in 1..a : isCombinator(c.nodes[q]) \/ isUniversal(c.nodes[q])} = {}
    THEN Ok(InsertAt(c, 1, toInsert), a + 1, 1)
    ELSE IF isUniversal(c.nodes[Max({q \in 1..a : isCombinator(c.nodes[q])
                                                    \/ isUniversal(c.nodes[q])})])
    THEN Ok(ReplaceAt(c, Max({q \in 1..a : isUniversal(c.nodes[q])}), toInsert), a,
            Max({q \in 1..a : isUniversal(c.nodes[q])}))
    ELSE Ok(InsertAt(c, Max({q \in 1..a : isCombinator(c.nodes[q])}) + 1, toInsert),
            Shift(a, Max({q \in 1..a : isCombinator(c.nodes[q])}) + 1),
            Max({q \in 1..a : isCombinator(c.nodes[q])}) + 1)

safeInsertTag(c, a, toInsert) ==
    LET stops == {q \in 1..a : \/ isCombinator(c.nodes[q])
                               \/ isTag(c.nodes[q])
                               \/ isUniversal(c.nodes[q])}
    IN  IF stops = {}
        THEN Ok(InsertAt(c, 1, toInsert), a + 1, 1)
        ELSE LET q == Max(stops)
             IN  IF isCombinator(c.nodes[q])
                 THEN Ok(InsertAt(c, q + 1, toInsert), Shift(a, q + 1), q + 1)
                 ELSE IF isTag(c.nodes[q])
                 THEN Throw(c, a, ErrHasTag)
                 ELSE Ok(ReplaceAt(c, q, toInsert), a, q)

\* Mutant: the scan for the insertion point stops at combinators only.
safeInsertPastPseudoElement(c, a, toInsert) ==
    IF isCombinator(toInsert) \/ isComment(toInsert)
    THEN Throw(c, a, ErrCannotInsert)
    ELSE IF isTag(toInsert)
    THEN safeInsertTag(c, a, toInsert)
    ELSE IF {q \in a..Len(c.nodes) : isCombinator(c.nodes[q])} # {}
    THEN Ok(InsertAt(c, Min({q \in a..Len(c.nodes) : isCombinator(c.nodes[q])}), toInsert),
            Shift(a, Min({q \in a..Len(c.nodes) : isCombinator(c.nodes[q])})),
            Min({q \in a..Len(c.nodes) : isCombinator(c.nodes[q])}))
    ELSE Ok(InsertAt(c, Len(c.nodes) + 1, toInsert), a, Len(c.nodes) + 1)

\* Mutant: a node that is not a tag is always appended to the selector.
safeInsertAtEnd(c, a, toInsert) ==
    IF isCombinator(toInsert) \/ isComment(toInsert)
    THEN Throw(c, a, ErrCannotInsert)
    ELSE IF isTag(toInsert)
    THEN safeInsertTag(c, a, toInsert)
    ELSE Ok(InsertAt(c, Len(c.nodes) + 1, toInsert), a, Len(c.nodes) + 1)

safeInsert(c, a, toInsert) ==
    IF isCombinator(toInsert) \/ isComment(toInsert)
    THEN Throw(c, a, ErrCannotInsert)
    ELSE IF isTag(toInsert)
    THEN safeInsertTag(c, a, toInsert)
    ELSE LET stops == {q \in a..Len(c.nodes) : \/ isCombinator(c.nodes[q])
                                               \/ isPseudoElement(c.nodes[q])}
         IN  IF stops # {}
             THEN LET b == Min(stops)
                  IN  IF isPseudoElement(c.nodes[b]) /\ isPseudoElement(toInsert)
                      THEN Throw(c, a, ErrHasPseudoElement)
                      ELSE Ok(InsertAt(c, b, toInsert), Shift(a, b), b)
             ELSE Ok(InsertAt(c, Len(c.nodes) + 1, toInsert), a, Len(c.nodes) + 1)

\* The result s of an insertion made while the anchor stood at a.
Reanchor(s, a) == [s EXCEPT !.at = IF s.ok THEN Shift(a, s.ins) ELSE a]

\* The loop of safeInsertAll from i on; r is the result so far, r.ins is where
\* nodeToInsertAfter stands.
RECURSIVE InsertRest(_, _, _, _)
InsertRest(r, batch, i, firstIsTag) ==
    IF ~r.ok \/ i > Len(batch)
    THEN r
    ELSE LET c == Cont(r.nodes, r.idx)
             n == batch[i]
             nextIsPE == /\ r.ins + 1 <= Len(r.nodes)
                         /\ isPseudoElement(r.nodes[r.ins + 1])
         IN  IF isCombinator(n)
             THEN Throw(c, r.at, ErrHasCombinator)
             ELSE IF isPseudoElement(n) /\ nextIsPE
             THEN Throw(c, r.at, ErrHasPseudoElement)
             ELSE IF i = 2 /\ firstIsTag
             THEN InsertRest(Reanchor(safeInsert(c, r.ins, n), r.at),
                             batch, i + 1, firstIsTag)
             ELSE InsertRest(
                    Ok(InsertAt(c, r.ins + 1, n), Shift(r.at, r.ins + 1), r.ins + 1),
                    batch, i + 1, firstIsTag)

\* Mutant: no re-anchoring after a leading tag, the second node is threaded
\* right after it like the later ones.
safeInsertAllNoReanchor(c, a, batch, isContainer) ==
    IF isContainer \/ Len(batch) = 0
    THEN Ok(c, a, 0)
    ELSE InsertRest(safeInsert(c, a, batch[1]), batch, 2, FALSE)

\* safeInsertAll(node at a, toInsert) where batch = toInsert.nodes and
\* isContainer tells whether toInsert is the very selector that holds the
\* node (container === toInsert, line 362): nothing is done then.
safeInsertAll(c, a, batch, isContainer) ==
    IF isContainer \/ Len(batch) = 0
    THEN Ok(c, a, 0)
    ELSE InsertRest(safeInsert(c, a, batch[1]), batch, 2, isTag(batch[1]))

(***************************************************************************)
(* The compound invariants of a selector (spec section 3), on its          *)
(* top-level nodes.                                                        *)
(***************************************************************************)
\* 1: a tag or universal node is the first node of its compound (so there is
\*    at most one per compound).
TagFirst(ns) ==
    \A p \in 1..Len(ns) :
        (isTag(ns[p]) \/ isUniversal(ns[p])) => (p = 1 \/ isCombinator(ns[p - 1]))

\* 2: a pseudo-element is the last node of its compound (so there is at most
\*    one per compound).
PseudoElementLast(ns) ==
    \A p \in 1..Len(ns) :
        isPseudoElement(ns[p]) => (p = Len(ns) \/ isCombinator(ns[p + 1]))

\* 3: no comment; combinators stand between two compounds.
CombinatorsBetween(ns) ==
    \A p \in 1..Len(ns) :
        /\ ~isComment(ns[p])
        /\ isCombinator(ns[p]) =>
              /\ p > 1 /\ p < Len(ns)
              /\ ~isCombinator(ns[p - 1]) /\ ~isCombinator(ns[p + 1])

WellFormed(ns) ==
    Len(ns) > 0 /\ TagFirst(ns) /\ PseudoElementLast(ns) /\ CombinatorsBetween(ns)

SeqsUpTo(S, n) == UNION {[1..k -> S] : k \in 1..n}

(***************************************************************************)
(* The Safe Insertion Engine on its own: safeInsert, safeInsertTag and     *)
(* safeInsertAll called at any non-combinator anchor of a selector.        *)
(***************************************************************************)
MaxEngineLen == 3
MaxBatch == 3

EngineAtoms ==
    {Tag("div"), Universal, ClassName("a"), pseudo("::before"), combinator(">")}

EngineSelectors == {s \in SeqsUpTo(EngineAtoms, MaxEngineLen) : WellFormed(s)}

\* What a caller may hand to the engine as one node.
EngineNodes ==
    {Tag("span"), Universal, ClassName("x"), pseudo(":hover"), pseudo("::after"),
     combinator(" "), Comment("/**/")}

EngineBatches == SeqsUpTo(EngineNodes, MaxBatch)

NoCall == [op |-> "none", anchor |-> 0, batch |-> <<>>, before |-> <<>>]
Call(o, a, b) == [op |-> o, anchor |-> a, batch |-> b, before |-> nodes]

\* No parent chain is being walked.
NoSite == [kind |-> "none", len |-> 0]
WalkIdle == site = NoSite /\ current = 0 /\ count = 0

\* No stylesheet is being walked.
SheetIdle == sheet = <<>> /\ ruleNo = 0

\* No diagnostic is being mapped.
NoFile == [transformedText |-> <<>>, sourceMappings |-> <<>>, classNames |-> <<>>]
NotCached == [cached |-> FALSE, markers |-> <<>>]
NoDiagnostic ==
    [hasFile |-> FALSE, file |-> "", hasStart |-> FALSE, start |-> 0,
     hasLength |-> FALSE, length |-> 0, messageText |-> <<>>]
MapperIdle ==
    /\ transformed = NoFile /\ markerCache = NotCached
    /\ diagnostic = NoDiagnostic /\ mapped = NoDiagnostic

Idle ==
    /\ input = <<>> /\ legacy = FALSE /\ list = <<>> /\ cur = 0 /\ idx = 0
    /\ seenDeep = FALSE /\ seenHost = FALSE /\ needsContentClass = FALSE
    /\ containsHostPseudo = FALSE /\ nodePermutations = <<>> /\ shimInput = <<>>
    /\ SheetIdle /\ WalkIdle /\ MapperIdle

EngineInit ==
    /\ phase = "engine"
    /\ nodes \in EngineSelectors
    /\ err = ""
    /\ last = NoCall
    /\ Idle

EngineFrame ==
    UNCHANGED <<input, legacy, list, cur, idx, seenDeep, seenHost,
                needsContentClass, containsHostPseudo, nodePermutations, shimInput,
                sheet, ruleNo, site, current, count, mapperVars>>

\* The outcome of an engine call: the mutated selector, or the error thrown
\* (the exception leaves the engine; the selector is as the throw left it).
EngineResult(r, call) ==
    /\ nodes' = r.nodes
    /\ err' = r.err
    /\ phase' = IF r.ok THEN "engine" ELSE "engine_error"
    /\ last' = call
    /\ EngineFrame

Anchors == {a \in 1..Len(nodes) : ~isCombinator(nodes[a])}

Insert ==
    /\ phase = "engine" /\ Len(nodes) <= MaxEngineLen
    /\ \E a \in Anchors, n \in EngineNodes :
          EngineResult(safeInsert(Cont(nodes, 0), a, n), Call("insert", a, <<n>>))

InsertTag ==
    /\ phase = "engine" /\ Len(nodes) <= MaxEngineLen
    /\ \E a \in Anchors, n \in {t \in EngineNodes : isTag(t)} :
          EngineResult(safeInsertTag(Cont(nodes, 0), a, n), Call("insertTag", a, <<n>>))

\* safeInsertAll with the nodes of another selector, or ("insertAllSelf")
\* with the selector that holds the anchor itself.
InsertAll ==
    /\ phase = "engine" /\ Len(nodes) <= MaxEngineLen
    /\ \E a \in Anchors :
          \/ \E b \in EngineBatches :
                EngineResult(safeInsertAll(Cont(nodes, 0), a, b, FALSE),
                             Call("insertAll", a, b))
          \/ EngineResult(safeInsertAll(Cont(nodes, 0), a, nodes, TRUE),
                          Call("insertAllSelf", a, nodes))

EngineNext == Insert \/ InsertTag \/ InsertAll

EngineSpec == EngineInit /\ [][EngineNext]_vars

\* C1: after any sequence of successful insert / insertTag / insertAll calls
\* on a selector that satisfied compound invariant 1, every compound still
\* has at most one tag-or-universal node, and it is the first of its compound.
C1_TagInvariantPreserved ==
    (phase = "engine" /\ last.op # "none" /\ TagFirst(last.before)) => TagFirst(nodes)

\* C2: after any successful insert or insertAll on a selector that satisfied
\* compound invariant 2, every compound still has at most one pseudo-element
\* and it is the last node of its compound.
C2_PseudoElementInvariantPreserved ==
    (phase = "engine" /\ last.op \in {"insert", "insertAll"}
        /\ PseudoElementLast(last.before)) => PseudoElementLast(nodes)

\* Where the compound of the node at a starts.
CompoundStart(ns, a) == Max({q \in 1..a : q = 1 \/ isCombinator(ns[q - 1])})

\* ns with n put in as the node at p.
WithNodeAt(ns, p, n) == SubSeq(ns, 1, p - 1) \o <<n>> \o SubSeq(ns, p, Len(ns))

\* C11: a tag spliced (by insert or insertTag) into a compound whose type
\* selector is the universal `*` takes the place of the `*`: no error, and the
\* selector is as before but for the tag standing where the `*` stood.
C11_TagReplacesUniversal ==
    (/\ last.op \in {"insert", "insertTag"}
     /\ isTag(last.batch[1])
     /\ TagFirst(last.before)
     /\ isUniversal(last.before[CompoundStart(last.before, last.anchor)])) =>
        /\ phase = "engine"
        /\ nodes = [last.before EXCEPT
                       ![CompoundStart(last.before, last.anchor)] = last.batch[1]]

C11_Witness ==
    /\ phase = "engine"
    /\ last.op = "insertTag"
    /\ last.before = <<ClassName("a"), combinator(">"), Universal>>
    /\ nodes = <<ClassName("a"), combinator(">"), Tag("span")>>

\* C16: the engine never adds a combinator or a comment: a call whose node,
\* or whose batch at any position, holds one fails, and after a successful
\* call on a selector that satisfied compound invariant 3 the selector still
\* satisfies it.
C16_NoCombinatorOrCommentAdded ==
    (last.op \in {"insert", "insertTag", "insertAll"}) =>
        /\ (\E i \in 1..Len(last.batch) :
                isCombinator(last.batch[i]) \/ isComment(last.batch[i])) =>
              phase = "engine_error"
        /\ (phase = "engine" /\ CombinatorsBetween(last.before)) =>
              CombinatorsBetween(nodes)

\* after is before with n put in at some place p from the anchor on, in the
\* anchor's compound, right before the first combinator or pseudo-element
\* from the anchor on, or at the very end when there is none.
PlacedAtBoundary(before, after, a, n) ==
    \E p \in a..Len(after) :
        /\ after[p] = n
        /\ SubSeq(after, 1, p - 1) \o SubSeq(after, p + 1, Len(after)) = before
        /\ \/ p = Len(after)
           \/ isCombinator(after[p + 1])
           \/ isPseudoElement(after[p + 1])
        /\ \A m \in a..(p - 1) : ~isCombinator(before[m]) /\ ~isPseudoElement(before[m])

\* The first combinator or pseudo-element from a on is a pseudo-element.
PseudoElementAhead(ns, a) ==
    \E q \in a..Len(ns) :
        /\ isPseudoElement(ns[q])
        /\ \A m \in a..(q - 1) : ~isCombinator(ns[m]) /\ ~isPseudoElement(ns[m])

\* C19: insert of a node that is no tag, combinator or comment (and no second
\* pseudo-element for the compound) succeeds and puts the node right before
\* the first combinator or pseudo-element found from the anchor on, or last;
\* the nodes that were there keep their places relative to each other.
C19_InsertPlacement ==
    (/\ last.op = "insert"
     /\ ~isTag(last.batch[1]) /\ ~isCombinator(last.batch[1]) /\ ~isComment(last.batch[1])
     /\ ~(isPseudoElement(last.batch[1]) /\ PseudoElementAhead(last.before, last.anchor))) =>
        /\ phase = "engine"
        /\ PlacedAtBoundary(last.before, nodes, last.anchor, last.batch[1])

C19_Witness ==
    /\ phase = "engine"
    /\ last.op = "insert"
    /\ last.anchor = 1
    /\ last.before = <<ClassName("a"), pseudo("::before")>>
    /\ nodes = <<ClassName("a"), ClassName("x"), pseudo("::before")>>

\* C20: insertTag at an anchor whose compound starts with a tag fails with
\* the duplicate-tag error and the selector is as it was; when the compound
\* holds neither a tag nor a universal node the tag becomes the first node of
\* the anchor's compound.
C20_InsertTagDuplicateOrFirst ==
    (last.op = "insertTag" /\ TagFirst(last.before)) =>
        /\ isTag(last.before[CompoundStart(last.before, last.anchor)]) =>
              /\ phase = "engine_error"
              /\ err = ErrHasTag
              /\ nodes = last.before
        /\ (/\ ~isTag(last.before[CompoundStart(last.before, last.anchor)])
            /\ ~isUniversal(last.before[CompoundStart(last.before, last.anchor)])) =>
              /\ phase = "engine"
              /\ nodes = WithNodeAt(last.before,
                                    CompoundStart(last.before, last.anchor), last.batch[1])

C20_Witness ==
    /\ phase = "engine_error"
    /\ last.op = "insertTag"
    /\ last.anchor = 2
    /\ last.before = <<Tag("div"), ClassName("a")>>
    /\ nodes = <<Tag("div"), ClassName("a")>>
    /\ err = ErrHasTag

\* Where the compound of the node at a ends.
CompoundEnd(ns, a) ==
    Max({q \in a..Len(ns) : \A m \in a..q : ~isCombinator(ns[m])})

\* Where nodes added at the end of the compound of the node at a go: before
\* its pseudo-element when its last node is one, after its last node otherwise.
TailPlace(ns, a) ==
    IF isPseudoElement(ns[CompoundEnd(ns, a)])
    THEN CompoundEnd(ns, a)
    ELSE CompoundEnd(ns, a) + 1

\* ns with the nodes of b put in, in order, from position p on.
WithNodesAt(ns, p, b) == SubSeq(ns, 1, p - 1) \o b \o SubSeq(ns, p, Len(ns))

\* ns with tag t made the first node of the compound that starts at s: in
\* place of a universal node standing there, in front otherwise.
WithLeadingTag(ns, s, t) ==
    IF isUniversal(ns[s])
    THEN SubSeq(ns, 1, s - 1) \o <<t>> \o SubSeq(ns, s + 1, Len(ns))
    ELSE WithNodeAt(ns, s, t)

\* C21: after a successful insertAll on a well-formed selector the batch is
\* in the anchor's compound: without a leading tag, contiguous and in batch
\* order at the compound's end, before its pseudo-element if it has one; with
\* a leading tag, the tag first in the compound and the other nodes
\* contiguous and in order at the compound's end, before its pseudo-element.
C21_InsertAllPlacement ==
    (/\ phase = "engine"
     /\ last.op = "insertAll"
     /\ WellFormed(last.before)) =>
        IF isTag(last.batch[1])
        THEN nodes =
               WithNodesAt(
                   WithLeadingTag(last.before,
                                  CompoundStart(last.before, last.anchor), last.batch[1]),
                   TailPlace(WithLeadingTag(last.before,
                                            CompoundStart(last.before, last.anchor),
                                            last.batch[1]),
                             CompoundStart(last.before, last.anchor)),
                   Tail(last.batch))
        ELSE nodes = WithNodesAt(last.before, TailPlace(last.before, last.anchor),
                                 last.batch)

C21_Witness ==
    /\ phase = "engine"
    /\ last.op = "insertAll"
    /\ last.before = <<ClassName("a"), pseudo("::before")>>
    /\ last.batch = <<Tag("span"), ClassName("x"), pseudo(":hover")>>
    /\ nodes = <<Tag("span"), ClassName("a"), ClassName("x"), pseudo(":hover"),
                 pseudo("::before")>>

(***************************************************************************)
(* Host-Context Rewriter                                                   *)
(***************************************************************************)
isHostContext(n) == isPseudo(n) /\ n.value = ":host-context"
isGlobalContext(n) == isPseudo(n) /\ n.value = ":-acx-global-context"
isHost(n) == isPseudo(n) /\ n.value = ":host"
isUnscoped(n) == isPseudo(n) /\ n.value = ":UNSCOPED"
isNgDeep(n) == isPseudo(n) /\ n.value = "::ng-deep"
isRootPseudo(n) == isPseudo(n) /\ n.value = ":root"

ErrTypeError == "TypeError"

RECURSIVE Concat(_)
Concat(ss) == IF Len(ss) = 0 THEN <<>> ELSE Head(ss) \o Concat(Tail(ss))

\* Mutant: the global-escape pseudo is unwrapped instead of renamed.
RewrittenNodesUnwrapped(ns) ==
    [p \in 1..Len(ns) |->
        IF isGlobalContext(ns[p]) THEN ns[p].nodes[1].nodes[1]
        ELSE IF isHostContext(ns[p]) THEN hostPseudo
        ELSE ns[p]]

\* The selector.each loop of rewriteHostContext: a global-escape pseudo is
\* renamed, a :host-context is replaced in place by a bare :host.
RewrittenNodes(ns) ==
    [p \in 1..Len(ns) |->
        IF isGlobalContext(ns[p]) THEN [ns[p] EXCEPT !.value = ":UNSCOPED"]
        ELSE IF isHostContext(ns[p]) THEN hostPseudo
        ELSE ns[p]]

\* hostContextNodes, in collection order
HostContextNodes(ns) == SelectSeq(ns, isHostContext)

\* hostContextIndex: the position of the first node of the compound that
\* holds the first :host-context (0: none found).
HostContextIndex(ns) ==
    LET found == {p \in 1..Len(ns) : isHostContext(ns[p])}
    IN  IF found = {} THEN 0
        ELSE LET combs == {q \in 1..Min(found) : isCombinator(ns[q])}
             IN  IF combs = {} THEN 1 ELSE Max(combs) + 1

\* One arrangement is a sequence of compounds, a compound a sequence of nodes.
\* The 2m + 1 placements of arg in an arrangement of m compounds, in the
\* order the source pushes them.  A placement is [ok, err, arr].

\* hostContextArg of a :host-context written without an argument (node.first
\* of a pseudo without nodes): cloneNodes and unscoped throw a TypeError on it.
Undefined == <<Leaf("undefined", "")>>

\* node.clone(): a new object, and new objects for the nodes below it.  A
\* clone is not the object it was made from: it carries no object mark (see
\* "Node objects that stand in more than one selector" below).
RECURSIVE clone(_)
clone(n) ==
    [type |-> n.type, value |-> n.value,
     nodes |-> SubSeq([p \in 1..Len(n.nodes) |-> clone(n.nodes[p])], 1, Len(n.nodes))]

cloneNodes(ns) == SubSeq([p \in 1..Len(ns) |-> clone(ns[p])], 1, Len(ns))

\* nextPermutations.push(cloneNodes([...])): the arrangement a of compound
\* selectors, each given by its nodes, pushed as clones.
Placed(a) ==
    [ok |-> TRUE, err |-> "",
     arr |-> SubSeq([c \in 1..Len(a) |-> cloneNodes(a[c])], 1, Len(a))]

\* cloneNodes(compoundSelectors) throws: one of them is undefined
NotCloned(arr) == \E c \in 1..Len(arr) : arr[c] = Undefined

\* Mutant: the new compound is always put in front of the first one.
PlaceBeforeFirst(arr, i, arg) == Placed(<<arg>> \o arr)

\* cloneNodes([...compoundSelectors.slice(0, i), hostContextArg,
\*             ...compoundSelectors.slice(i)])
PlaceBefore(arr, i, arg) ==
    IF arg = Undefined \/ NotCloned(arr)
    THEN [ok |-> FALSE, err |-> ErrTypeError, arr |-> arr]
    ELSE Placed(SubSeq(arr, 1, i - 1) \o <<arg>> \o SubSeq(arr, i, Len(arr)))

\* The clone of the arrangement after safeInsertAll returned r on the clone
\* of its compound i.
Inside(arr, i, r) ==
    [ok |-> r.ok, err |-> r.err,
     arr |-> SubSeq(Placed(arr).arr, 1, i - 1) \o <<r.nodes>>
                \o SubSeq(Placed(arr).arr, i + 1, Len(arr))]

\* const clone = cloneNodes(compoundSelectors);
\* safeInsertAll(clone[i].first, hostContextArg): the nodes of hostContextArg
\* themselves go into the clone of compound i.
PlaceInside(arr, i, arg) ==
    IF arg = Undefined \/ NotCloned(arr) \/ Len(arr[i]) = 0
    THEN [ok |-> FALSE, err |-> ErrTypeError, arr |-> arr]
    ELSE Inside(arr, i, safeInsertAll(Cont(cloneNodes(arr[i]), 0), 1, arg, FALSE))

\* cloneNodes([...compoundSelectors, hostContextArg])
PlaceAfter(arr, arg) ==
    IF arg = Undefined \/ NotCloned(arr)
    THEN [ok |-> FALSE, err |-> ErrTypeError, arr |-> arr]
    ELSE Placed(Append(arr, arg))

\* Mutant: the placement after the last compound is left out.
PlacementsNoTrailing(arr, arg) ==
    Concat([i \in 1..Len(arr) |-> <<PlaceBefore(arr, i, arg), PlaceInside(arr, i, arg)>>])

Placements(arr, arg) ==
    Concat([i \in 1..Len(arr) |-> <<PlaceBefore(arr, i, arg), PlaceInside(arr, i, arg)>>])
        \o <<PlaceAfter(arr, arg)>>

\* The for-loop over the remaining arguments, from argument j on.
RECURSIVE PlaceArgs(_, _, _)
PlaceArgs(perms, args, j) ==
    IF j > Len(args) \/ \E q \in 1..Len(perms) : ~perms[q].ok
    THEN perms
    ELSE PlaceArgs(Concat([q \in 1..Len(perms) |-> Placements(perms[q].arr, args[j])]),
                   args, j + 1)

\* Each compound goes into an :UNSCOPED, compounds joined by descendant
\* combinators, without a trailing one.
WithCombinators(arr) ==
    Concat([i \in 1..Len(arr) |->
        IF i < Len(arr)
        THEN <<unscoped(SelectorNode(arr[i])), descendantCombinator>>
        ELSE <<unscoped(SelectorNode(arr[i]))>>])

\* The first throw among the placements, or the throw of unscoped(undefined)
\* (line 208), or all the arrangements.
Arrangements(placed) ==
    IF \E q \in 1..Len(placed) : ~placed[q].ok
    THEN [ok |-> FALSE,
          err |-> placed[Min({q \in 1..Len(placed) : ~placed[q].ok})].err,
          perms |-> <<>>]
    ELSE IF \E q \in 1..Len(placed) : NotCloned(placed[q].arr)
    THEN [ok |-> FALSE, err |-> ErrTypeError, perms |-> <<>>]
    ELSE [ok |-> TRUE, err |-> "", perms |-> [q \in 1..Len(placed) |-> placed[q].arr]]

\* hostContextNodes.map((node) => node.first), as the nodes of each argument
HostContextArgs(hostContextNodes) ==
    [q \in 1..Len(hostContextNodes) |->
        IF Len(hostContextNodes[q].nodes) = 0
        THEN Undefined
        ELSE hostContextNodes[q].nodes[1].nodes]

\* Mutant: the arguments left are placed from the last one to the first.
SeedAndPlaceBackwards(args) ==
    PlaceArgs(<<[ok |-> TRUE, err |-> "", arr |-> <<args[Len(args)]>>]>>,
              [j \in 1..(Len(args) - 1) |-> args[Len(args) - j]], 1)

\* The seed [[hostContextArgs.pop()]] and the loop over the arguments left.
SeedAndPlace(args) ==
    PlaceArgs(<<[ok |-> TRUE, err |-> "", arr |-> <<args[Len(args)]>>]>>,
              SubSeq(args, 1, Len(args) - 1), 1)

\* getNodePermutations(hostContextNodes): [ok, err, perms]; perms are the
\* arrangements (before the combinators are put in).
getNodePermutations(hostContextNodes) ==
    IF Len(hostContextNodes) = 0
    THEN [ok |-> TRUE, err |-> "", perms |-> <<>>]
    ELSE Arrangements(SeedAndPlace(HostContextArgs(hostContextNodes)))

\* Mutant: no descendant combinator after the arrangement.
DescendantFormNoCombinator(ns, arr, h) ==
    SubSeq(ns, 1, h - 1) \o WithCombinators(arr) \o SubSeq(ns, h, Len(ns))

\* selectorFromNodes([...nodesBeforeHostContext, ...permutation,
\*                    descendantCombinator(), ...nodesAfterHostContext])
DescendantForm(ns, arr, h) ==
    SubSeq(ns, 1, h - 1) \o WithCombinators(arr) \o <<descendantCombinator>>
        \o SubSeq(ns, h, Len(ns))

\* Mutant: the rest of the permutation is spliced in at the selector's start.
SplicedAtFront(r, rest, h) ==
    [ok |-> r.ok, err |-> r.err,
     nodes |-> SubSeq(rest, 1, Len(rest) - 1) \o r.nodes]

\* selectorWithoutCombinator.nodes.splice(hostContextIndex, 0, ...permutation)
\* after safeInsertAll returned r and the permutation lost its last node.
Spliced(r, rest, h) ==
    [ok |-> r.ok, err |-> r.err,
     nodes |-> SubSeq(r.nodes, 1, h - 1) \o SubSeq(rest, 1, Len(rest) - 1)
                  \o SubSeq(r.nodes, h, Len(r.nodes))]

\* selectorWithoutCombinator: the last compound merged into the host compound,
\* the rest of the permutation spliced in at hostContextIndex.  [ok, err, nodes]
MergedForm(ns, arr, h) ==
    Spliced(safeInsertAll(Cont(ns, 0), h, arr[Len(arr)], FALSE), WithCombinators(arr), h)

\* The replacement selectors, or the first throw among the merges.
Replacements(ns, perms, h, merged) ==
    IF \E q \in 1..Len(perms) : ~merged[q].ok
    THEN [ok |-> FALSE,
          err |-> merged[Min({q \in 1..Len(perms) : ~merged[q].ok})].err,
          sels |-> <<>>]
    ELSE [ok |-> TRUE, err |-> "",
          sels |-> Concat([q \in 1..Len(perms) |->
                     <<DescendantForm(ns, perms[q], h), merged[q].nodes>>])]

\* createSelectorsFromPermutations(selector, permutations, hostContextIndex):
\* [ok, err, sels], two selectors per permutation.
createSelectorsFromPermutations(ns, perms, h) ==
    IF Len(perms) = 0
    THEN [ok |-> TRUE, err |-> "", sels |-> <<ns>>]
    ELSE Replacements(ns, perms, h, [q \in 1..Len(perms) |-> MergedForm(ns, perms[q], h)])

\* Lines 136-145, given what getNodePermutations returned.
ReplaceSelector(rewritten, p, h) ==
    IF ~p.ok
    THEN [ok |-> FALSE, err |-> p.err, sels |-> <<>>]
    ELSE createSelectorsFromPermutations(rewritten, p.perms, h)

\* The body of rewriteHostContext for one selector: [ok, err, sels]
RewriteSelector(ns) ==
    IF HostContextIndex(ns) = 0
    THEN [ok |-> TRUE, err |-> "", sels |-> <<RewrittenNodes(ns)>>]
    ELSE ReplaceSelector(RewrittenNodes(ns), getNodePermutations(HostContextNodes(ns)),
                         HostContextIndex(ns))

\* The selector list after every selector was replaced, or the first throw.
Collected(each) ==
    IF \E q \in 1..Len(each) : ~each[q].ok
    THEN [ok |-> FALSE, err |-> each[Min({q \in 1..Len(each) : ~each[q].ok})].err,
          sels |-> <<>>]
    ELSE [ok |-> TRUE, err |-> "", sels |-> Concat([q \in 1..Len(each) |-> each[q].sels])]

\* rewriteHostContext(selectorList): [ok, err, sels]
rewriteHostContext(selectorList) ==
    Collected([q \in 1..Len(selectorList) |-> RewriteSelector(selectorList[q])])

(***************************************************************************)
(* Node objects that stand in more than one selector.                      *)
(* getNodePermutations puts the nodes of hostContextArg themselves (no     *)
(* clones) into every arrangement it makes by placing the argument inside  *)
(* a compound (line 193); every other placement, and every later round,    *)
(* clones.  createSelectorsFromPermutations puts the nodes of the last     *)
(* compound of an arrangement themselves into the merged selector (line    *)
(* 253); the descendant form is made of clones (selectorFromNodes).  So    *)
(* with three or more chained :host-context the nodes of the argument      *)
(* placed last (the second-to-last one collected) stand, as the same       *)
(* objects, at top level in every merged selector whose arrangement holds  *)
(* that argument inside its last compound; node.parent of such a node is   *)
(* the selector it was put in last.  A node that is one object in several  *)
(* selectors carries the field parent: the number, in the selector list,   *)
(* of the selector that node.parent is, or 0 once node.remove() or         *)
(* node.replaceWith() has set node.parent = undefined; and the field id,   *)
(* that tells the object: its place in the argument it was written in.     *)
(***************************************************************************)
isShared(n) == "parent" \in DOMAIN n

Shared(n, f, m) ==
    [type |-> n.type, value |-> n.value, nodes |-> n.nodes, parent |-> f, id |-> m]

\* node.parent === undefined
isDetached(n) == isShared(n) /\ n.parent = 0

\* ns after the object n got node.parent = undefined
Detach(ns, n) ==
    IF ~isShared(n) THEN ns
    ELSE SubSeq([p \in 1..Len(ns) |->
                    IF isShared(ns[p]) /\ ns[p].id = n.id /\ ns[p].parent = n.parent
                    THEN Shared(ns[p], 0, ns[p].id)
                    ELSE ns[p]], 1, Len(ns))

\* The :host-context of ns whose argument is placed last by getNodePermutations
\* (0: ns chains fewer than three, so no node object gets into two selectors).
LastPlaced(ns) ==
    LET found == {p \in 1..Len(ns) : isHostContext(ns[p])}
    IN  IF Cardinality(found) < 3 THEN 0
        ELSE CHOOSE p \in found :
                Cardinality({q \in found : q > p}) = 1

\* ns with the nodes of the argument placed last told apart from their clones.
WithObjects(ns) ==
    IF LastPlaced(ns) = 0 \/ Len(ns[LastPlaced(ns)].nodes) = 0
    THEN ns
    ELSE SubSeq(ns, 1, LastPlaced(ns) - 1)
         \o <<[ns[LastPlaced(ns)] EXCEPT !.nodes =
                 <<[@[1] EXCEPT !.nodes =
                       SubSeq([m \in 1..Len(@) |-> Shared(@[m], 0, m)], 1, Len(@))]>>
                 \o Tail(@)]>>
         \o SubSeq(ns, LastPlaced(ns) + 1, Len(ns))

\* The last compound of the arrangement holds nodes of the argument placed
\* last themselves: safeInsertAll put them inside that compound (next to its
\* nodes, or as a tag in place of its universal node); every placement before
\* or after a compound holds clones only.
PlacedInsideLast(arr) ==
    \E p \in 1..Len(arr[Len(arr)]) : isShared(arr[Len(arr)][p])

\* The replacement selectors sels of the arrangements perms, that stand from
\* offset + 1 on in the list: the objects in the merged selectors (the even
\* ones) that hold them at top level, clones everywhere else.
WithParents(sels, perms, offset) ==
    [j \in 1..Len(sels) |->
        IF j % 2 = 0 /\ PlacedInsideLast(perms[j \div 2])
        THEN [p \in 1..Len(sels[j]) |->
                IF isShared(sels[j][p])
                THEN Shared(sels[j][p],
                            offset + 2 * Max({i \in 1..Len(perms) :
                                                 PlacedInsideLast(perms[i])}),
                            sels[j][p].id)
                ELSE clone(sels[j][p])]
        ELSE cloneNodes(sels[j])]

\* What RewriteSelector made of WithObjects(ns), with node.parent told.
SharedSelectors(r, p, offset) ==
    IF ~r.ok \/ ~p.ok \/ Len(p.perms) = 0
    THEN [ok |-> r.ok, err |-> r.err, sels |-> [j \in 1..Len(r.sels) |-> cloneNodes(r.sels[j])]]
    ELSE [ok |-> TRUE, err |-> "", sels |-> WithParents(r.sels, p.perms, offset)]

\* The body of rewriteHostContext for one selector, the objects told.
RewriteSelectorShared(ns, offset) ==
    IF LastPlaced(ns) = 0
    THEN RewriteSelector(ns)
    ELSE SharedSelectors(RewriteSelector(WithObjects(ns)),
                         getNodePermutations(HostContextNodes(WithObjects(ns))), offset)

RECURSIVE RewriteFrom(_, _, _)
RewriteFrom(selectorList, g, done) ==
    IF \/ g > Len(selectorList)
       \/ ~done.ok
    THEN done
    ELSE RewriteFrom(selectorList, g + 1,
                     Collected(<<done, RewriteSelectorShared(selectorList[g],
                                                             Len(done.sels))>>))

\* rewriteHostContext(selectorList): [ok, err, sels], as rewriteHostContext
\* above, with the nodes that are one object in several selectors told.
rewriteHostContextShared(selectorList) ==
    RewriteFrom(selectorList, 1, [ok |-> TRUE, err |-> "", sels |-> <<>>])

(***************************************************************************)
(* Selector Shimmer: one call of the callback of selector.each in          *)
(* shimSelector.  A shim state is the selector's nodes, the position of    *)
(* the loop and the three flags; ok = FALSE when the callback threw.       *)
(***************************************************************************)
ShimState(c, deep, host, needs) ==
    [ok |-> TRUE, err |-> "", nodes |-> c.nodes, idx |-> c.idx,
     seenDeep |-> deep, seenHost |-> host, needsContentClass |-> needs]

ShimThrow(st, msg) == [st EXCEPT !.ok = FALSE, !.err = msg]

\* Mutant: no combinator is removed around ::ng-deep.
touchupNothing(c, p) == RemoveAt(c, p)

\* touchupCombinatorsAroundNgDeep(node at p), then node.remove()
touchupCombinatorsAroundNgDeep(c, p) ==
    LET prevIsDescendant == p > 1 /\ isCombinator(c.nodes[p - 1])
                                  /\ c.nodes[p - 1].value = " "
        nextIsDescendant == p < Len(c.nodes) /\ isCombinator(c.nodes[p + 1])
                                             /\ c.nodes[p + 1].value = " "
    IN  IF prevIsDescendant THEN RemoveAt(RemoveAt(c, p - 1), p - 1)
        ELSE IF nextIsDescendant THEN RemoveAt(RemoveAt(c, p + 1), p)
        ELSE RemoveAt(c, p)

\* Mutant: the :host node is not removed.
HostMarkedNotRemoved(r, deep) == ShimState(Cont(r.nodes, r.idx), deep, TRUE, FALSE)

\* if (!seenDeep) { safeInsert(node, attribute(hostClass)); node.remove(); }
\* with the :host node standing at r.at
HostMarked(r, deep) ==
    ShimState(RemoveAt(Cont(r.nodes, r.idx), r.at), deep, TRUE, FALSE)

\* The :host branch after safeInsertAll(node, node.first) returned r1 or threw;
\* seenHost and needsContentClass were assigned before the call (lines 290-291).
HostInlined(st, r1) ==
    IF ~r1.ok
    THEN ShimThrow([st EXCEPT !.nodes = r1.nodes, !.idx = r1.idx,
                              !.seenHost = TRUE, !.needsContentClass = FALSE], r1.err)
    ELSE IF ~st.seenDeep
    THEN HostMarked(safeInsert(Cont(r1.nodes, r1.idx), r1.at, attribute(HostClass)),
                    st.seenDeep)
    ELSE ShimState(Cont(r1.nodes, r1.idx), st.seenDeep, TRUE, FALSE)

\* The :host branch (lines 289-303)
ShimHost(st) ==
    IF Len(st.nodes[st.idx].nodes) > 0
    THEN HostInlined(st, safeInsertAll(Cont(st.nodes, st.idx), st.idx,
                                       st.nodes[st.idx].nodes[1].nodes, FALSE))
    ELSE HostInlined(st, Ok(Cont(st.nodes, st.idx), st.idx, 0))

\* needsContentClass = false after safeInsert returned r
ContentMarked(st, r) == ShimState(Cont(r.nodes, r.idx), st.seenDeep, st.seenHost, FALSE)

\* Mutant: a compound that holds the content class already gets no other one.
ShimContentOnce(st) ==
    LET p == st.idx
        ns == st.nodes
        hasNext == p < Len(ns)
        atPoint == \/ ~hasNext
                   \/ isCombinator(ns[p + 1])
                   \/ isPseudoElement(ns[p + 1])
                   \/ (p = 1 /\ isPseudoElement(ns[p]))
        marked == \E m \in 1..Len(ns) :
                     /\ ns[m] = attribute(ContentClass)
                     /\ \A k \in 1..Len(ns) :
                           (k >= m /\ k <= p) \/ (k >= p /\ k <= m) => ~isCombinator(ns[k])
    IN  IF st.needsContentClass /\ atPoint /\ ~marked
        THEN ContentMarked(st, safeInsert(Cont(ns, p), p, attribute(ContentClass)))
        ELSE st

\* The content-class insertion point (lines 317-331)
ShimContent(st) ==
    LET p == st.idx
        ns == st.nodes
        hasNext == p < Len(ns)
        atPoint == \/ ~hasNext
                   \/ isCombinator(ns[p + 1])
                   \/ isPseudoElement(ns[p + 1])
                   \/ (p = 1 /\ isPseudoElement(ns[p]))
    IN  IF st.needsContentClass /\ atPoint
        THEN ContentMarked(st, safeInsert(Cont(ns, p), p, attribute(ContentClass)))
        ELSE st

\* Mutant: needsContentClass is not recomputed at a combinator.
ShimCombinatorNoReset(st, legacyMode, containsHost) ==
    [st EXCEPT !.seenDeep = st.seenDeep \/ (legacyMode /\ st.seenHost)]

\* The combinator branch (lines 283-287)
ShimCombinator(st, legacyMode, containsHost) ==
    [st EXCEPT !.seenDeep = st.seenDeep \/ (legacyMode /\ st.seenHost),
               !.needsContentClass = /\ ~(st.seenDeep \/ (legacyMode /\ st.seenHost))
                                     /\ containsHost = st.seenHost]

\* Mutant: the flag needsContentClass is left as it was.
ShimUnscopedStillScoped(st) ==
    IF Len(st.nodes[st.idx].nodes) = 0
    THEN ShimThrow([st EXCEPT !.needsContentClass = FALSE], ErrTypeError)
    ELSE ShimState(ReplaceAt(Cont(st.nodes, st.idx), st.idx, st.nodes[st.idx].nodes[1]),
                   st.seenDeep, st.seenHost, st.needsContentClass)

\* The :UNSCOPED branch (lines 304-306): node.replaceWith(node.first)
ShimUnscoped(st) ==
    IF Len(st.nodes[st.idx].nodes) = 0
    THEN ShimThrow([st EXCEPT !.needsContentClass = FALSE], ErrTypeError)
    ELSE ShimState(ReplaceAt(Cont(st.nodes, st.idx), st.idx, st.nodes[st.idx].nodes[1]),
                   st.seenDeep, st.seenHost, FALSE)

\* The ::ng-deep branch (lines 307-311)
ShimNgDeep(st) ==
    ShimState(touchupCombinatorsAroundNgDeep(Cont(st.nodes, st.idx), st.idx),
              TRUE, st.seenHost, FALSE)

\* The :root branch (lines 312-314)
ShimRoot(st) == [st EXCEPT !.needsContentClass = FALSE]

\* The callback on the node at st.idx, without the loop's own increment.
ShimNode(st, legacyMode, containsHost) ==
    IF isCombinator(st.nodes[st.idx]) THEN ShimCombinator(st, legacyMode, containsHost)
    ELSE IF isHost(st.nodes[st.idx]) THEN ShimHost(st)
    ELSE IF isUnscoped(st.nodes[st.idx]) THEN ShimUnscoped(st)
    ELSE IF isNgDeep(st.nodes[st.idx]) THEN ShimNgDeep(st)
    ELSE IF isRootPseudo(st.nodes[st.idx]) THEN ShimRoot(st)
    ELSE ShimContent(st)

(***************************************************************************)
(* shimSelector on a selector that holds nodes whose node.parent is        *)
(* another selector of the list.  A world is [nodes, idx, far]: the        *)
(* selector each() runs on ("near") with the index of the loop, and the    *)
(* selector the shared nodes have as parent ("far").  A place is [c, p]:   *)
(* node number p of container c.  node.next(), node.prev(), node.remove()  *)
(* and node.replaceWith() go through node.parent; container.insertBefore   *)
(* and insertAfter look the given node up in the container itself, and     *)
(* when it is not there (index -1) splice at -1 (before the last node) and *)
(* at 0, and move every running index on.  A node whose node.parent is     *)
(* undefined has the container "none": next() and prev() of it, and an     *)
(* insertion into its container, throw a TypeError (the place Lost);       *)
(* remove() and replaceWith() of it do nothing.                            *)
(***************************************************************************)
World(ns, i, others) == [nodes |-> ns, idx |-> i, far |-> others]

Place(c, p) == [c |-> c, p |-> p]
Nowhere == Place("none", 0)
Lost == Place("lost", 0)

Held(w, c) == IF c = "far" THEN w.far ELSE w.nodes
NodeAt(w, l) == Held(w, l.c)[l.p]

\* node.parent
containerOf(w, l) ==
    IF isDetached(NodeAt(w, l)) THEN "none"
    ELSE IF l.c = "near" /\ isShared(NodeAt(w, l)) THEN "far"
    ELSE l.c

\* container.index(node) + 1: 0 when the container does not hold the node
index(w, c, l) ==
    IF l.c = c THEN l.p
    ELSE IF /\ isShared(NodeAt(w, l))
            /\ \E p \in 1..Len(Held(w, c)) : Held(w, c)[p] = NodeAt(w, l)
    THEN Min({p \in 1..Len(Held(w, c)) : Held(w, c)[p] = NodeAt(w, l)})
    ELSE 0

\* node.next() and node.prev()
nextOf(w, l) ==
    IF l = Nowhere THEN Nowhere
    ELSE IF containerOf(w, l) = "none" THEN Lost
    ELSE IF index(w, containerOf(w, l), l) < Len(Held(w, containerOf(w, l)))
    THEN Place(containerOf(w, l), index(w, containerOf(w, l), l) + 1)
    ELSE Nowhere
prevOf(w, l) ==
    IF l = Nowhere THEN Nowhere
    ELSE IF containerOf(w, l) = "none" THEN Lost
    ELSE IF index(w, containerOf(w, l), l) > 1
    THEN Place(containerOf(w, l), index(w, containerOf(w, l), l) - 1)
    ELSE Nowhere

\* A result is [ok, err, nodes, idx, far, at, ins]: the world afterwards,
\* the place of the anchor node and the place of the inserted node.
Failed(w, at, msg) ==
    [ok |-> FALSE, err |-> msg, nodes |-> w.nodes, idx |-> w.idx, far |-> w.far,
     at |-> at, ins |-> Nowhere]

Unmoved(w, at) ==
    [ok |-> TRUE, err |-> "", nodes |-> w.nodes, idx |-> w.idx, far |-> w.far,
     at |-> at, ins |-> Nowhere]

\* n made node number p of container c; the loop's index moves on when n
\* stands at or before it, or (all) whatever its place.
Put(w, at, c, p, all, n) ==
    IF c = "none" THEN Failed(w, at, ErrTypeError) ELSE
    [ok |-> TRUE, err |-> "",
     nodes |-> IF c = "near" THEN WithNodeAt(w.nodes, p, n) ELSE w.nodes,
     idx |-> IF c = "near" /\ (all \/ w.idx >= p) THEN w.idx + 1 ELSE w.idx,
     far |-> IF c = "far" THEN WithNodeAt(w.far, p, n) ELSE w.far,
     at |-> IF at.c = c /\ at.p >= p THEN Place(c, at.p + 1) ELSE at,
     ins |-> Place(c, p)]

\* container.insertBefore(old, n), container.insertAfter(old, n),
\* container.append(n), container.prepend(n)
insertBefore(w, at, c, old, n) ==
    Put(w, at, c,
        IF index(w, c, old) > 0 THEN index(w, c, old) ELSE Max({Len(Held(w, c)), 1}),
        index(w, c, old) = 0, n)
insertAfter(w, at, c, old, n) ==
    Put(w, at, c, index(w, c, old) + 1, index(w, c, old) = 0, n)
append(w, at, c, n) == Put(w, at, c, Len(Held(w, c)) + 1, FALSE, n)
prepend(w, at, c, n) == Put(w, at, c, 1, TRUE, n)

\* old.replaceWith(n): n takes the place of old in old.parent
replaceWith(w, at, old, n) ==
    IF containerOf(w, old) = "none" THEN Unmoved(w, at) ELSE
    [ok |-> TRUE, err |-> "",
     nodes |-> IF containerOf(w, old) = "near"
               THEN SubSeq(w.nodes, 1, index(w, "near", old) - 1) \o <<n>>
                    \o SubSeq(w.nodes, index(w, "near", old) + 1, Len(w.nodes))
               ELSE Detach(w.nodes, NodeAt(w, old)),
     idx |-> w.idx,
     far |-> IF containerOf(w, old) = "far"
             THEN SubSeq(w.far, 1, index(w, "far", old) - 1) \o <<n>>
                  \o SubSeq(w.far, index(w, "far", old) + 1, Len(w.far))
             ELSE w.far,
     at |-> at,
     ins |-> Place(containerOf(w, old), index(w, containerOf(w, old), old))]

\* ns without its node number p
Removed(ns, p) == SubSeq(ns, 1, p - 1) \o SubSeq(ns, p + 1, Len(ns))

\* old.remove(): the world afterwards, and where the node at l stands then
remove(w, old) ==
    IF containerOf(w, old) = "none" THEN World(w.nodes, w.idx, w.far) ELSE
    World(IF containerOf(w, old) = "near"
          THEN Removed(w.nodes, index(w, "near", old))
          ELSE Detach(w.nodes, NodeAt(w, old)),
          IF containerOf(w, old) = "near" /\ w.idx >= index(w, "near", old)
          THEN w.idx - 1 ELSE w.idx,
          IF containerOf(w, old) = "far"
          THEN Removed(w.far, index(w, "far", old)) ELSE w.far)
Pulled(w, old, l) ==
    IF l.c = containerOf(w, old) /\ l.p > index(w, containerOf(w, old), old)
    THEN Place(l.c, l.p - 1)
    ELSE l

\* safeInsertTag(node at l, toInsert), the walk back standing at x
RECURSIVE TagFrom(_, _, _, _)
TagFrom(w, l, x, toInsert) ==
    IF x = Nowhere
    THEN prepend(w, l, containerOf(w, l), toInsert)
    ELSE IF x = Lost
    THEN Failed(w, l, ErrTypeError)
    ELSE IF isCombinator(NodeAt(w, x))
    THEN insertAfter(w, l, containerOf(w, l), x, toInsert)
    ELSE IF isTag(NodeAt(w, x))
    THEN Failed(w, l, ErrHasTag)
    ELSE IF isUniversal(NodeAt(w, x))
    THEN replaceWith(w, l, x, toInsert)
    ELSE TagFrom(w, l, prevOf(w, x), toInsert)

safeInsertTagLinked(w, l, toInsert) == TagFrom(w, l, l, toInsert)

\* The walk of safeInsert from x on: the first combinator or pseudo-element.
RECURSIVE StopFrom(_, _)
StopFrom(w, x) ==
    IF x = Nowhere \/ x = Lost THEN x
    ELSE IF isCombinator(NodeAt(w, x)) \/ isPseudoElement(NodeAt(w, x)) THEN x
    ELSE StopFrom(w, nextOf(w, x))

\* Lines 427-439, insertBeforeNode standing at b.
InsertedBefore(w, l, b, toInsert) ==
    IF b = Lost
    THEN Failed(w, l, ErrTypeError)
    ELSE IF b = Nowhere
    THEN append(w, l, containerOf(w, l), toInsert)
    ELSE IF isPseudoElement(NodeAt(w, b)) /\ isPseudoElement(toInsert)
    THEN Failed(w, l, ErrHasPseudoElement)
    ELSE insertBefore(w, l, containerOf(w, l), b, toInsert)

\* safeInsert(node at l, toInsert)
safeInsertLinked(w, l, toInsert) ==
    IF isCombinator(toInsert) \/ isComment(toInsert)
    THEN Failed(w, l, ErrCannotInsert)
    ELSE IF isTag(toInsert)
    THEN safeInsertTagLinked(w, l, toInsert)
    ELSE InsertedBefore(w, l, StopFrom(w, l), toInsert)

\* The result s of an insertion made while the anchor stood at a.
ReanchorLinked(s, a) ==
    [s EXCEPT !.at = IF s.ok /\ a.c = s.ins.c /\ a.p >= s.ins.p
                     THEN Place(a.c, a.p + 1) ELSE a]

\* The loop of safeInsertAll from i on, into container c; r.ins is where
\* nodeToInsertAfter stands.
RECURSIVE InsertRestLinked(_, _, _, _, _)
InsertRestLinked(r, c, batch, i, firstIsTag) ==
    IF ~r.ok \/ i > Len(batch)
    THEN r
    ELSE IF isCombinator(batch[i])
    THEN Failed(r, r.at, ErrHasCombinator)
    ELSE IF /\ isPseudoElement(batch[i])
            /\ nextOf(r, r.ins) # Nowhere
            /\ isPseudoElement(NodeAt(r, nextOf(r, r.ins)))
    THEN Failed(r, r.at, ErrHasPseudoElement)
    ELSE IF i = 2 /\ firstIsTag
    THEN InsertRestLinked(ReanchorLinked(safeInsertLinked(r, r.ins, batch[i]), r.at),
                          c, batch, i + 1, firstIsTag)
    ELSE InsertRestLinked(insertAfter(r, r.at, c, r.ins, batch[i]),
                          c, batch, i + 1, firstIsTag)

\* safeInsertAll(node at l, toInsert) where batch = toInsert.nodes
safeInsertAllLinked(w, l, batch, isContainer) ==
    IF isContainer \/ Len(batch) = 0
    THEN Unmoved(w, l)
    ELSE InsertRestLinked(safeInsertLinked(w, l, batch[1]), containerOf(w, l),
                          batch, 2, isTag(batch[1]))

\* A shim state of a world: the world, the flags, and ok = FALSE when the
\* callback threw.
LinkedState(w, deep, host, needs) ==
    [ok |-> TRUE, err |-> "", nodes |-> w.nodes, idx |-> w.idx, far |-> w.far,
     seenDeep |-> deep, seenHost |-> host, needsContentClass |-> needs]

\* The node the callback is called with.
Here(st) == Place("near", st.idx)

\* if (!seenDeep) { safeInsert(node, attribute(hostClass)); node.remove(); }
\* with the :host node standing at r.at
HostMarkedLinked(r, deep) ==
    IF ~r.ok
    THEN ShimThrow(LinkedState(r, deep, TRUE, FALSE), r.err)
    ELSE LinkedState(remove(r, r.at), deep, TRUE, FALSE)

\* The :host branch after safeInsertAll(node, node.first) returned r1 or threw.
HostInlinedLinked(st, r1) ==
    IF ~r1.ok
    THEN ShimThrow([st EXCEPT !.nodes = r1.nodes, !.idx = r1.idx, !.far = r1.far,
                              !.seenHost = TRUE, !.needsContentClass = FALSE], r1.err)
    ELSE IF ~st.seenDeep
    THEN HostMarkedLinked(safeInsertLinked(r1, r1.at, attribute(HostClass)), st.seenDeep)
    ELSE LinkedState(r1, st.seenDeep, TRUE, FALSE)

\* The :host branch (lines 289-303)
ShimHostLinked(st) ==
    IF Len(st.nodes[st.idx].nodes) > 0
    THEN HostInlinedLinked(st, safeInsertAllLinked(st, Here(st),
                                                   st.nodes[st.idx].nodes[1].nodes, FALSE))
    ELSE HostInlinedLinked(st, Unmoved(st, Here(st)))

\* The :UNSCOPED branch (lines 304-306)
ShimUnscopedLinked(st) ==
    IF Len(st.nodes[st.idx].nodes) = 0
    THEN ShimThrow([st EXCEPT !.needsContentClass = FALSE], ErrTypeError)
    ELSE LinkedState(replaceWith(st, Here(st), Here(st), st.nodes[st.idx].nodes[1]),
                     st.seenDeep, st.seenHost, FALSE)

isDescendantAt(w, l) ==
    l # Nowhere /\ isCombinator(NodeAt(w, l)) /\ NodeAt(w, l).value = " "

\* touchupCombinatorsAroundNgDeep(node at l), then node.remove(), of a node
\* that has a parent
touchupLinked(w, l) ==
    IF isDescendantAt(w, prevOf(w, l))
    THEN remove(remove(w, prevOf(w, l)), Pulled(w, prevOf(w, l), l))
    ELSE IF isDescendantAt(w, nextOf(w, l))
    THEN remove(remove(w, nextOf(w, l)), Pulled(w, nextOf(w, l), l))
    ELSE remove(w, l)

\* The ::ng-deep branch (lines 307-311)
ShimNgDeepLinked(st) ==
    IF prevOf(st, Here(st)) = Lost
    THEN ShimThrow([st EXCEPT !.seenDeep = TRUE, !.needsContentClass = FALSE], ErrTypeError)
    ELSE LinkedState(touchupLinked(st, Here(st)), TRUE, st.seenHost, FALSE)

\* safeInsert(node, attribute(contentClass)) returned r, or threw.
ContentMarkedLinked(st, r) ==
    IF ~r.ok
    THEN ShimThrow(LinkedState(r, st.seenDeep, st.seenHost, st.needsContentClass), r.err)
    ELSE LinkedState(r, st.seenDeep, st.seenHost, FALSE)

\* The content-class insertion point (lines 317-331)
ShimContentLinked(st) ==
    IF st.needsContentClass /\ nextOf(st, Here(st)) = Lost
    THEN ShimThrow(st, ErrTypeError)
    ELSE IF /\ st.needsContentClass
            /\ \/ nextOf(st, Here(st)) = Nowhere
               \/ isCombinator(NodeAt(st, nextOf(st, Here(st))))
               \/ isPseudoElement(NodeAt(st, nextOf(st, Here(st))))
               \/ (prevOf(st, Here(st)) = Nowhere /\ isPseudoElement(st.nodes[st.idx]))
    THEN ContentMarkedLinked(st, safeInsertLinked(st, Here(st), attribute(ContentClass)))
    ELSE st

\* The callback on the node at st.idx, without the loop's own increment.
ShimNodeLinked(st, legacyMode, containsHost) ==
    IF isCombinator(st.nodes[st.idx]) THEN ShimCombinator(st, legacyMode, containsHost)
    ELSE IF isHost(st.nodes[st.idx]) THEN ShimHostLinked(st)
    ELSE IF isUnscoped(st.nodes[st.idx]) THEN ShimUnscopedLinked(st)
    ELSE IF isNgDeep(st.nodes[st.idx]) THEN ShimNgDeepLinked(st)
    ELSE IF isRootPseudo(st.nodes[st.idx]) THEN ShimRoot(st)
    ELSE ShimContentLinked(st)

\* The selector of the list that the shared nodes of selector number q have
\* as node.parent (0: ns holds no node with another selector as parent).
FarOf(ns, q) ==
    IF \E p \in 1..Len(ns) : isShared(ns[p]) /\ ns[p].parent \notin {q, 0}
    THEN ns[Min({p \in 1..Len(ns) : isShared(ns[p]) /\ ns[p].parent \notin {q, 0}})].parent
    ELSE 0

\* Selector number q holds a node whose node.parent is not that selector.
isLinked(ns, q) == \E p \in 1..Len(ns) : isShared(ns[p]) /\ ns[p].parent # q

\* The nodes of the selector that is node.parent of the shared nodes of ns.
FarNodes(sels, ns, q) == IF FarOf(ns, q) = 0 THEN <<>> ELSE sels[FarOf(ns, q)]

\* ns after the nodes that had selector number f as node.parent and stand
\* in it no more (its nodes are far now) got node.parent = undefined.
Orphaned(ns, f, far) ==
    SubSeq([p \in 1..Len(ns) |->
               IF /\ isShared(ns[p]) /\ ns[p].parent = f
                  /\ ~\E k \in 1..Len(far) : isShared(far[k]) /\ far[k].id = ns[p].id
               THEN Shared(ns[p], 0, ns[p].id)
               ELSE ns[p]], 1, Len(ns))

\* The list after a callback, run on selector number q, left the nodes far
\* in selector number f (0: no such selector).
Relinked(sels, q, f, far) ==
    IF f = 0 THEN sels
    ELSE SubSeq([j \in 1..Len(sels) |->
                    IF j = f THEN far
                    ELSE IF j = q THEN sels[j]
                    ELSE Orphaned(sels[j], f, far)], 1, Len(sels))

\* selector.nodes.some((node) => isPseudo(node) && node.value === ':host')
ContainsHostPseudo(ns) == \E p \in 1..Len(ns) : isHost(ns[p])

(***************************************************************************)
(* The per-rule pass of plugin.Once on one rule whose selector is parsed   *)
(* into a selector list: rewriteHostContext, then shimSelector on every    *)
(* selector of the list.                                                   *)
(***************************************************************************)
MaxNodes == 5

Cls == ClassName("a")
Before == pseudo("::before")
HostX == PseudoArg(":host", <<ClassName("x")>>)
HostDiv == PseudoArg(":host", <<Tag("div")>>)
NgDeep == pseudo("::ng-deep")
RootPseudo == pseudo(":root")
UnscopedU == PseudoArg(":UNSCOPED", <<ClassName("u")>>)
HostContext(v) == PseudoArg(":host-context", <<ClassName(v)>>)
GlobalContext == PseudoArg(":-acx-global-context", <<ClassName("g")>>)

\* The compounds the input selectors are built from.
InputCompounds ==
    { <<Cls>>, <<Cls, Before>>, <<Before>>,
      <<hostPseudo>>, <<HostX>>, <<Cls, hostPseudo>>,
      <<NgDeep>>, <<Cls, NgDeep>>,
      <<RootPseudo>>, <<Cls, RootPseudo>>, <<RootPseudo, Cls>>,
      <<UnscopedU>>, <<GlobalContext>>,
      <<HostContext("x")>>, <<HostContext("x"), HostContext("y")>>,
      <<HostContext("x"), HostContext("y"), HostContext("z")>>,
      <<HostContext("x"), PseudoArg(":host-context", <<NgDeep>>), HostContext("z")>>,
      <<HostContext("x"), PseudoArg(":host-context", <<Tag("div")>>),
        PseudoArg(":host-context", <<Universal>>)>>,
      <<Cls, attribute(ContentClass)>>,
      <<Universal, HostDiv>>, <<Tag("div"), HostDiv>> }

\* The selectors of at most n nodes made of input compounds joined by comb.
RECURSIVE Joined(_, _)
Joined(comb, n) ==
    IF n < 1 THEN {}
    ELSE {k \in InputCompounds : Len(k) <= n}
         \cup UNION {{k \o <<comb>> \o s : s \in Joined(comb, n - Len(k) - 1)} :
                        k \in InputCompounds}

\* The compounds of a selector that hold a :host-context.
HostContextCompounds(ns) ==
    {p \in 1..Len(ns) : /\ p = 1 \/ isCombinator(ns[p - 1])
                        /\ \E q \in p..Len(ns) :
                              /\ isHostContext(ns[q])
                              /\ \A m \in p..q : ~isCombinator(ns[m])}

\* The selectors a rule is given with: every :host-context of a selector sits
\* in one compound (rewriteHostContext assumes it, line 116).
Inputs ==
    {s \in Joined(combinator(" "), MaxNodes) \cup Joined(combinator(">"), MaxNodes) :
        Cardinality(HostContextCompounds(s)) <= 1}

Init ==
    /\ phase = "parsed"
    /\ input \in Inputs
    /\ legacy \in BOOLEAN
    /\ list = <<input>>
    /\ cur = 0
    /\ nodes = <<>>
    /\ idx = 0
    /\ seenDeep = FALSE /\ seenHost = FALSE /\ needsContentClass = FALSE
    /\ containsHostPseudo = FALSE
    /\ err = ""
    /\ last = NoCall
    /\ nodePermutations = <<>>
    /\ shimInput = <<>>
    /\ SheetIdle /\ WalkIdle /\ MapperIdle

\* shimSelector is entered on the selector at position q of sels.
EnterShim(sels, q) ==
    /\ cur' = q
    /\ nodes' = sels[q]
    /\ idx' = 1
    /\ seenDeep' = FALSE
    /\ seenHost' = FALSE
    /\ containsHostPseudo' = ContainsHostPseudo(sels[q])
    /\ needsContentClass' = ~ContainsHostPseudo(sels[q])

\* What plugin.Once does with the result r of rewriteHostContext.
Rewritten(r) ==
    IF r.ok
    THEN /\ list' = r.sels
         /\ shimInput' = r.sels
         /\ phase' = "shim"
         /\ EnterShim(r.sels, 1)
         /\ UNCHANGED err
    ELSE /\ phase' = "error"
         /\ err' = r.err
         /\ UNCHANGED <<list, shimInput, cur, nodes, idx, seenDeep, seenHost,
                        needsContentClass, containsHostPseudo>>

\* rewriteHostContext(selectorList), then the first call of shimSelector.
Rewrite ==
    /\ phase = "parsed"
    /\ Rewritten(rewriteHostContextShared(list))
    /\ UNCHANGED <<input, legacy, last, nodePermutations, sheet, ruleNo, site,
                   current, count, mapperVars>>

\* The callback returned st (the loop moves on) or threw.
Stepped(st) ==
    /\ nodes' = st.nodes
    /\ seenDeep' = st.seenDeep
    /\ seenHost' = st.seenHost
    /\ needsContentClass' = st.needsContentClass
    /\ IF st.ok
       THEN idx' = st.idx + 1 /\ UNCHANGED <<phase, err>>
       ELSE idx' = st.idx /\ phase' = "error" /\ err' = st.err

\* The callback returned st or threw, in a world whose far selector is
\* number f of the list.
SteppedLinked(st, f) == Stepped(st) /\ list' = Relinked(list, cur, f, st.far)

\* One call of the callback of selector.each, and the loop's step.
ShimStep ==
    /\ phase = "shim"
    /\ idx <= Len(nodes)
    /\ IF ~isLinked(nodes, cur)
       THEN /\ Stepped(ShimNode(ShimState(Cont(nodes, idx), seenDeep, seenHost,
                                          needsContentClass), legacy, containsHostPseudo))
            /\ UNCHANGED list
       ELSE SteppedLinked(
                ShimNodeLinked(LinkedState(World(nodes, idx, FarNodes(list, nodes, cur)),
                                           seenDeep, seenHost, needsContentClass),
                               legacy, containsHostPseudo),
                FarOf(nodes, cur))
    /\ UNCHANGED <<input, legacy, cur, containsHostPseudo, last,
                   nodePermutations, shimInput, sheet, ruleNo, site, current, count,
                   mapperVars>>

\* selector.each is over: shimSelector returns and selectorList.each goes on
\* to the next selector, or the list is serialized into rule.selector.
ShimReturn ==
    /\ phase = "shim"
    /\ idx > Len(nodes)
    /\ list' = SubSeq(list, 1, cur - 1) \o <<nodes>> \o SubSeq(list, cur + 1, Len(list))
    /\ IF cur < Len(list)
       THEN EnterShim(list, cur + 1) /\ UNCHANGED phase
       ELSE /\ phase' = "done"
            /\ UNCHANGED <<cur, nodes, idx, seenDeep, seenHost,
                           needsContentClass, containsHostPseudo>>
    /\ UNCHANGED <<input, legacy, err, last, nodePermutations, shimInput,
                   sheet, ruleNo, site, current, count, mapperVars>>

Next == Rewrite \/ ShimStep \/ ShimReturn

Spec == Init /\ [][Next]_vars

(***************************************************************************)
(* rewriteHostContext on its own, on selectors that chain up to            *)
(* MaxHostContexts :host-context pseudos in one compound.                  *)
(***************************************************************************)
MaxHostContexts == 4

ArgNames == <<"x", "y", "z", "w", "v", "u">>

\* The arguments the q-th chained :host-context may have: a class, and for
\* the first two also a compound that starts with a tag.
ArgsAt(q) ==
    IF q = 1 THEN {<<ClassName("x")>>, <<Tag("div")>>}
    ELSE IF q = 2 THEN {<<ClassName("y")>>, <<Tag("div"), ClassName("y")>>}
    ELSE {<<ClassName(ArgNames[q])>>}

\* The chains of n :host-context pseudos.
Chains(n) ==
    {[q \in 1..n |-> PseudoArg(":host-context", f[q])] :
        f \in {g \in [1..n -> UNION {ArgsAt(q) : q \in 1..n}] :
                  \A q \in 1..n : g[q] \in ArgsAt(q)}}

ChainPrefixes == {<<>>, <<ClassName("p")>>, <<ClassName("p"), combinator(" ")>>}
ChainSuffixes ==
    {<<>>, <<ClassName("s")>>, <<pseudo("::before")>>, <<combinator(">"), ClassName("b")>>}

\* Chains with a :host-context written without an argument.
BareChains ==
    { <<pseudo(":host-context")>>,
      <<HostContext("x"), pseudo(":host-context")>>,
      <<PseudoArg(":host-context", <<Tag("div")>>), pseudo(":host-context"),
        PseudoArg(":host-context", <<Tag("span")>>)>>,
      <<PseudoArg(":host-context", <<ClassName("x"), combinator(">"), ClassName("y")>>),
        pseudo(":host-context"), HostContext("z")>> }

RewriteInputs ==
    UNION {{pre \o ch \o suf : pre \in ChainPrefixes, suf \in ChainSuffixes} :
              ch \in BareChains \cup UNION {Chains(n) : n \in 1..MaxHostContexts}}

RewriteInit ==
    /\ phase = "parsed"
    /\ input \in RewriteInputs
    /\ legacy = FALSE
    /\ list = <<input>>
    /\ cur = 0 /\ nodes = <<>> /\ idx = 0
    /\ seenDeep = FALSE /\ seenHost = FALSE /\ needsContentClass = FALSE
    /\ containsHostPseudo = FALSE
    /\ err = ""
    /\ last = NoCall
    /\ nodePermutations = <<>>
    /\ shimInput = <<>>
    /\ SheetIdle /\ WalkIdle /\ MapperIdle

\* What rewriteHostContext leaves: the new list, or the error thrown.
RewriteDone(r, p) ==
    /\ phase' = IF r.ok THEN "rewritten" ELSE "error"
    /\ list' = IF r.ok THEN r.sels ELSE list
    /\ err' = r.err
    /\ nodePermutations' = p.perms

RewriteOnly ==
    /\ phase = "parsed"
    /\ RewriteDone(rewriteHostContext(list), getNodePermutations(HostContextNodes(list[1])))
    /\ UNCHANGED <<input, legacy, cur, nodes, idx, seenDeep, seenHost,
                   needsContentClass, containsHostPseudo, last, shimInput,
                   sheet, ruleNo, site, current, count, mapperVars>>

RewriteNext == RewriteOnly

RewriteSpec == RewriteInit /\ [][RewriteNext]_vars

Binomial(n, k) ==
    LET fact[m \in 0..n] == IF m = 0 THEN 1 ELSE m * fact[m - 1]
    IN  fact[n] \div (fact[k] * fact[n - k])

\* The Ordered Bell (Fubini) numbers, by their recurrence
\*   a(0) = 1,  a(n) = sum over k in 1..n of C(n, k) * a(n - k).
RECURSIVE SumTo(_, _, _)
RECURSIVE OrderedBell(_)
SumTo(n, k, acc) ==
    IF k > n THEN acc ELSE SumTo(n, k + 1, acc + Binomial(n, k) * OrderedBell(n - k))
OrderedBell(n) == IF n = 0 THEN 1 ELSE SumTo(n, 1, 0)

\* C3: a selector whose host compound chains n :host-context pseudos, with
\* arguments that merge without conflict, yields OrderedBell(n) arrangements
\* (1, 3, 13, 75 for n = 1..4) and is replaced by 2 x OrderedBell(n)
\* selectors (2, 6, 26 for n = 1, 2, 3).
C3_OrderedBellCount ==
    (phase = "rewritten") =>
        LET n == Len(HostContextNodes(input))
        IN  /\ Len(nodePermutations) = OrderedBell(n)
            /\ Len(list) = 2 * OrderedBell(n)
            /\ n = 1 => (Len(nodePermutations) = 1 /\ Len(list) = 2)
            /\ n = 2 => (Len(nodePermutations) = 3 /\ Len(list) = 6)
            /\ n = 3 => (Len(nodePermutations) = 13 /\ Len(list) = 26)
            /\ n = 4 => Len(nodePermutations) = 75

C3_Witness ==
    /\ phase = "rewritten"
    /\ Len(HostContextNodes(input)) = 4
    /\ Len(nodePermutations) = 75
    /\ Len(list) = 150

(***************************************************************************)
(* Reading a shimmed selector                                              *)
(***************************************************************************)
\* The nodes as serialized: a selector node standing among the nodes (what
\* :UNSCOPED was replaced with) counts as its children.
RECURSIVE Flat(_)
Flat(ns) ==
    IF Len(ns) = 0 THEN <<>>
    ELSE (IF Head(ns).type = "selector" THEN Flat(Head(ns).nodes) ELSE <<Head(ns)>>)
            \o Flat(Tail(ns))

isContentMarker(n) == n.type = "attribute" /\ n.value = ContentClass
isHostMarker(n) == n.type = "attribute" /\ n.value = HostClass
isMarker(n) == isContentMarker(n) \/ isHostMarker(n)

\* A selector that carries no marker yet (the precondition of section 9).
Unshimmed(ns) == \A p \in 1..Len(Flat(ns)) : ~isMarker(Flat(ns)[p])

Combinators(ns) == {p \in 1..Len(ns) : isCombinator(ns[p])}

\* p and q stand in the same compound of ns.
SameCompound(ns, p, q) ==
    \A m \in 1..Len(ns) : (m >= p /\ m <= q) \/ (m >= q /\ m <= p) => ~isCombinator(ns[m])

\* The number of the compound the node at p stands in.
CompoundOf(ns, p) == Cardinality({q \in Combinators(ns) : q < p}) + 1

\* The positions of compound j.
Compound(ns, j) == {p \in 1..Len(ns) : ~isCombinator(ns[p]) /\ CompoundOf(ns, p) = j}

NumCompounds(ns) == Cardinality(Combinators(ns)) + 1

\* The selectors of the list that shimSelector has returned from.
Shimmed ==
    {q \in 1..Len(list) : phase = "done" \/ (phase = "shim" /\ q < cur)}

HasNgDeep(ns) == \E p \in 1..Len(ns) : isNgDeep(ns[p])

\* C4 as stated: after shimming any selector, every compound holds the
\* content marker at most once, and no content marker stands after a
\* pseudo-element of its compound; a leading pseudo-element of a selector that
\* is content-scoped from the start gets the marker in front of it.
C4_AnySelectorMarkedOnce ==
    \A q \in Shimmed :
        /\ \A f \in {Flat(list[q])} : \A a, b \in 1..Len(f) :
              (a < b /\ SameCompound(f, a, b)) =>
                 /\ ~(isContentMarker(f[a]) /\ isContentMarker(f[b]))
                 /\ ~(isPseudoElement(f[a]) /\ isContentMarker(f[b]))
        /\ (/\ isPseudoElement(shimInput[q][1])
            /\ ~isNgDeep(shimInput[q][1])
            /\ ~ContainsHostPseudo(shimInput[q])) =>
              /\ isContentMarker(list[q][1])
              /\ list[q][2] = shimInput[q][1]

\* C4, for input that is not shimmed yet: after shimming a selector that
\* holds no marker, every compound holds the content marker at most once, and
\* no content marker stands after a pseudo-element of its compound; a leading
\* pseudo-element of a selector that is content-scoped from the start gets the
\* marker in front of it.
C4_ContentMarkerOnceBeforePseudoElement ==
    \A q \in Shimmed :
        Unshimmed(shimInput[q]) =>
            /\ \A f \in {Flat(list[q])} : \A a, b \in 1..Len(f) :
                  (a < b /\ SameCompound(f, a, b)) =>
                     /\ ~(isContentMarker(f[a]) /\ isContentMarker(f[b]))
                     /\ ~(isPseudoElement(f[a]) /\ isContentMarker(f[b]))
            /\ (/\ isPseudoElement(shimInput[q][1])
                /\ ~isNgDeep(shimInput[q][1])
                /\ ~ContainsHostPseudo(shimInput[q])) =>
                  /\ isContentMarker(list[q][1])
                  /\ list[q][2] = shimInput[q][1]

C4_Witness ==
    /\ phase = "done"
    /\ shimInput = <<<<Before, combinator(" "), Cls, Before>>>>
    /\ list = <<<<attribute(ContentClass), Before, combinator(" "),
                  Cls, attribute(ContentClass), Before>>>>

\* A selector with no :host, no shadow-piercing pseudo, no :root, no
\* :UNSCOPED and no marker yet.
Plain(ns) ==
    /\ Unshimmed(ns)
    /\ \A p \in 1..Len(ns) :
          ~isHost(ns[p]) /\ ~isNgDeep(ns[p]) /\ ~isRootPseudo(ns[p]) /\ ~isUnscoped(ns[p])

\* ns with the content marker put at the tail of every compound: after the
\* last node, or right before it when it is a pseudo-element.
RECURSIVE MarkTails(_)
MarkTails(ns) ==
    IF Len(ns) = 0 THEN <<>>
    ELSE IF isCombinator(Head(ns)) THEN <<Head(ns)>> \o MarkTails(Tail(ns))
    ELSE IF Len(ns) > 1 /\ ~isCombinator(ns[2]) THEN <<Head(ns)>> \o MarkTails(Tail(ns))
    ELSE IF isPseudoElement(Head(ns))
    THEN <<attribute(ContentClass), Head(ns)>> \o MarkTails(Tail(ns))
    ELSE <<Head(ns), attribute(ContentClass)>> \o MarkTails(Tail(ns))

\* C5: a plain selector shims to itself with the content marker added exactly
\* once at the tail of every compound (`.a .a` to `.a[c] .a[c]`); all other
\* nodes and the combinators keep their order.
C5_PlainSelectorTails ==
    \A q \in Shimmed :
        Plain(shimInput[q]) =>
            /\ list[q] = MarkTails(shimInput[q])
            /\ shimInput[q] = <<Cls, combinator(" "), Cls>> =>
                  list[q] = <<Cls, attribute(ContentClass), combinator(" "),
                              Cls, attribute(ContentClass)>>

C5_Witness ==
    /\ phase = "done"
    /\ shimInput = <<<<Cls, combinator(" "), Cls>>>>
    /\ list = <<<<Cls, attribute(ContentClass), combinator(" "),
                  Cls, attribute(ContentClass)>>>>

\* C6: `:host(.x)` on its own shims to `.x[h]`: the argument's nodes, then
\* the host marker; no :host node, no content marker, no combinator.
C6_HostWithArgument ==
    \A q \in Shimmed :
        (/\ Len(shimInput[q]) = 1
         /\ isHost(shimInput[q][1])
         /\ Len(shimInput[q][1].nodes) > 0) =>
            /\ list[q] = shimInput[q][1].nodes[1].nodes \o <<attribute(HostClass)>>
            /\ shimInput[q] = <<HostX>> => list[q] = <<ClassName("x"), attribute(HostClass)>>

C6_Witness ==
    /\ phase = "done"
    /\ input = <<HostX>>
    /\ list = <<<<ClassName("x"), attribute(HostClass)>>>>

\* Compound j of ns holds a node that satisfies P.
Has(ns, j, P(_)) == \E p \in Compound(ns, j) : P(ns[p])

HostCompounds(ns) == {j \in 1..NumCompounds(ns) : Has(ns, j, isHost)}

\* A compound that is neither a host compound nor held back by :root or
\* :UNSCOPED.
Eligible(ns, j) ==
    ~Has(ns, j, isHost) /\ ~Has(ns, j, isRootPseudo) /\ ~Has(ns, j, isUnscoped)

\* The rule chains at most two :host-context, so that no node object stands
\* in two of its replacement selectors.
ChainedAtMostTwice == Len(HostContextNodes(input)) <= 2

\* C7: in non-legacy mode, for a selector without shadow-piercing pseudo: with
\* a top-level :host, no compound before the (first) host compound gets the
\* content marker, a host compound gets the host marker, and every compound
\* after it gets the content marker unless it holds :root or :UNSCOPED; with
\* no :host every such compound is content-scoped, from the first one on.
C7_ScopingAroundHost ==
    \A q \in Shimmed :
        (~legacy /\ Unshimmed(shimInput[q]) /\ ~HasNgDeep(shimInput[q])) =>
            /\ NumCompounds(Flat(list[q])) = NumCompounds(shimInput[q])
            /\ \A j \in 1..NumCompounds(shimInput[q]) :
                  IF HostCompounds(shimInput[q]) = {}
                  THEN Eligible(shimInput[q], j) => Has(Flat(list[q]), j, isContentMarker)
                  ELSE /\ j < Min(HostCompounds(shimInput[q])) =>
                             ~Has(Flat(list[q]), j, isContentMarker)
                       /\ j \in HostCompounds(shimInput[q]) =>
                             Has(Flat(list[q]), j, isHostMarker)
                       /\ (j > Min(HostCompounds(shimInput[q]))
                              /\ Eligible(shimInput[q], j)) =>
                             Has(Flat(list[q]), j, isContentMarker)

\* C7 for the rules that chain at most two :host-context.
C7_ChainedAtMostTwice == ChainedAtMostTwice => C7_ScopingAroundHost

\* The ::ng-deep of ns stands at p, alone between two descendant combinators,
\* and is the only one.
NgDeepAtMidpoint(ns, p) ==
    /\ p > 2 /\ p + 1 < Len(ns)
    /\ isNgDeep(ns[p])
    /\ ns[p - 1] = descendantCombinator /\ ns[p + 1] = descendantCombinator
    /\ \A m \in 1..Len(ns) : isNgDeep(ns[m]) => m = p

\* Where the combinator number k of ns stands.
CombinatorAt(ns, k) ==
    CHOOSE p \in Combinators(ns) : Cardinality({m \in Combinators(ns) : m <= p}) = k

HostPlaces(ns) == {p \in 1..Len(ns) : isHostMarker(ns[p]) \/ isHost(ns[p])}

\* C9: in legacy mode no compound that follows the compound of the first
\* :host carries a content marker or a host marker after shimming.
C9_LegacyNothingAfterHost ==
    \A q \in Shimmed :
        (legacy /\ Unshimmed(shimInput[q]) /\ ContainsHostPseudo(shimInput[q])) =>
            /\ HostPlaces(Flat(list[q])) # {}
            /\ \A p \in 1..Len(Flat(list[q])) :
                  (/\ p > Min(HostPlaces(Flat(list[q])))
                   /\ ~SameCompound(Flat(list[q]), Min(HostPlaces(Flat(list[q]))), p)) =>
                      ~isMarker(Flat(list[q])[p])

\* C9 for the rules that chain at most two :host-context.
C9_ChainedAtMostTwice == ChainedAtMostTwice => C9_LegacyNothingAfterHost

\* C10: after shimming, no compound that holds :root holds the content
\* marker.
C10_RootNeverContentScoped ==
    \A q \in Shimmed :
        Unshimmed(shimInput[q]) =>
            \A a, b \in 1..Len(Flat(list[q])) :
                (isRootPseudo(Flat(list[q])[a]) /\ SameCompound(Flat(list[q]), a, b)) =>
                    ~isContentMarker(Flat(list[q])[b])

(***************************************************************************)
(* Reading the replacement selectors of rewriteHostContext                 *)
(***************************************************************************)
\* Where the compound that holds the first :host-context of ns starts and
\* where it ends.
HostContextStart(ns) ==
    CompoundStart(ns, Min({p \in 1..Len(ns) : isHostContext(ns[p])}))
HostContextEnd(ns) ==
    Max({p \in HostContextStart(ns)..Len(ns) :
            \A m \in HostContextStart(ns)..p : ~isCombinator(ns[m])})

\* ns with every :host-context(arg) replaced in place by a bare :host.
Unhosted(ns) ==
    [p \in 1..Len(ns) |-> IF isHostContext(ns[p]) THEN pseudo(":host") ELSE ns[p]]

\* seg is the compounds of arr, each inside an :UNSCOPED, each followed by a
\* descendant combinator.
WrappedAncestors(seg, arr) ==
    /\ Len(seg) = 2 * Len(arr)
    /\ \A k \in 1..Len(arr) :
          /\ isUnscoped(seg[2 * k - 1])
          /\ Len(seg[2 * k - 1].nodes) = 1
          /\ seg[2 * k - 1].nodes[1].type = "selector"
          /\ seg[2 * k - 1].nodes[1].nodes = arr[k]
          /\ seg[2 * k] = combinator(" ")

\* d is the descendant form of arrangement arr for the selector ns whose
\* host-context compound starts at h.
IsDescendantForm(d, ns, arr, h) ==
    /\ Len(d) = Len(ns) + 2 * Len(arr)
    /\ SubSeq(d, 1, h - 1) = SubSeq(ns, 1, h - 1)
    /\ WrappedAncestors(SubSeq(d, h, h + 2 * Len(arr) - 1), arr)
    /\ SubSeq(d, h + 2 * Len(arr), Len(d)) = SubSeq(Unhosted(ns), h, Len(ns))

\* C12: the first selector emitted for each arrangement is the nodes before
\* the host-context compound, the arrangement (each compound in :UNSCOPED,
\* joined by descendant combinators), one descendant combinator, then the
\* host-context compound and what follows it with :host for every
\* :host-context(arg).
C12_DescendantForm ==
    (phase = "rewritten") =>
        /\ Len(list) = 2 * Len(nodePermutations)
        /\ \A i \in 1..Len(nodePermutations) :
              IsDescendantForm(list[2 * i - 1], input, nodePermutations[i],
                               HostContextStart(input))

C12_Witness ==
    /\ phase = "rewritten"
    /\ input = <<ClassName("p"), combinator(" "),
                 PseudoArg(":host-context", <<ClassName("x")>>),
                 PseudoArg(":host-context", <<ClassName("y")>>),
                 combinator(">"), ClassName("b")>>
    /\ list[1] = <<ClassName("p"), combinator(" "),
                   unscoped(SelectorNode(<<ClassName("x")>>)), combinator(" "),
                   unscoped(SelectorNode(<<ClassName("y")>>)), combinator(" "),
                   pseudo(":host"), pseudo(":host"),
                   combinator(">"), ClassName("b")>>

\* The nodes of x that are (are not) nodes of b, in their order.
NodesOf(x, b) == SelectSeq(x, LAMBDA n : \E j \in 1..Len(b) : n = b[j])
NodesOutside(x, b) == SelectSeq(x, LAMBDA n : \A j \in 1..Len(b) : n # b[j])

\* x is one compound made of the nodes of a and the nodes of b, each in their
\* own order (a and b have no node in common).
MergedCompound(x, a, b) ==
    /\ \A p \in 1..Len(x) : ~isCombinator(x[p])
    /\ Len(x) = Len(a) + Len(b)
    /\ NodesOf(x, b) = b
    /\ NodesOutside(x, b) = a

\* m is the merged form of arrangement arr for the selector ns whose
\* host-context compound runs from h to e.
IsMergedForm(m, ns, arr, h, e) ==
    /\ Len(m) = Len(ns) + 2 * (Len(arr) - 1) + Len(arr[Len(arr)])
    /\ SubSeq(m, 1, h - 1) = SubSeq(ns, 1, h - 1)
    /\ WrappedAncestors(SubSeq(m, h, h + 2 * (Len(arr) - 1) - 1),
                        SubSeq(arr, 1, Len(arr) - 1))
    /\ MergedCompound(SubSeq(m, h + 2 * (Len(arr) - 1),
                             e + 2 * (Len(arr) - 1) + Len(arr[Len(arr)])),
                      SubSeq(Unhosted(ns), h, e), arr[Len(arr)])
    /\ SubSeq(m, e + 2 * (Len(arr) - 1) + Len(arr[Len(arr)]) + 1, Len(m))
          = SubSeq(ns, e + 1, Len(ns))

\* C13: the second selector emitted for each arrangement has the nodes of the
\* arrangement's last compound merged into the host compound, no combinator
\* between them, and the arrangement's other compounds (each in :UNSCOPED,
\* each followed by a descendant combinator) right before the host compound,
\* after the original nodes that preceded it.
C13_MergedForm ==
    (phase = "rewritten") =>
        /\ Len(list) = 2 * Len(nodePermutations)
        /\ \A i \in 1..Len(nodePermutations) :
              IsMergedForm(list[2 * i], input, nodePermutations[i],
                           HostContextStart(input), HostContextEnd(input))

C13_Witness ==
    /\ phase = "rewritten"
    /\ input = <<ClassName("p"), combinator(" "),
                 PseudoArg(":host-context", <<ClassName("x")>>),
                 PseudoArg(":host-context", <<ClassName("y")>>),
                 pseudo("::before")>>
    /\ list[2] = <<ClassName("p"), combinator(" "),
                   unscoped(SelectorNode(<<ClassName("x")>>)), combinator(" "),
                   pseudo(":host"), pseudo(":host"), ClassName("y"),
                   pseudo("::before")>>

(***************************************************************************)
(* The stylesheet pass: plugin.Once as ShadowCss.shimCssText runs it       *)
(* (legacy: false).  A rule is                                             *)
(*   [parent, selector, comment, rewritten, out, assigned, hasComment]:    *)
(* its parent node, its selector as parsed (a selector list), whether a    *)
(* comment node stands in it in the input, the list as rewriteHostContext  *)
(* left it (history), the list rule.selector holds now, whether            *)
(* rule.selector was assigned, whether the comment is still there.         *)
(***************************************************************************)
MaxRules == 2

\* shimSelector's selector.each loop, run to its end or to the first throw.
Advanced(st) == IF st.ok THEN [st EXCEPT !.idx = st.idx + 1] ELSE st

RECURSIVE EachNode(_, _, _)
EachNode(st, legacyMode, containsHost) ==
    IF ~st.ok \/ st.idx > Len(st.nodes)
    THEN st
    ELSE EachNode(Advanced(ShimNode(st, legacyMode, containsHost)), legacyMode, containsHost)

\* shimSelector(selector, content, host, legacy, containsHostPseudo)
shimSelector(ns, legacyMode, containsHost) ==
    EachNode(ShimState(Cont(ns, 1), FALSE, FALSE, ~containsHost), legacyMode, containsHost)

RECURSIVE EachNodeLinked(_, _, _)
EachNodeLinked(st, legacyMode, containsHost) ==
    IF ~st.ok \/ st.idx > Len(st.nodes)
    THEN st
    ELSE EachNodeLinked(Advanced(ShimNodeLinked(st, legacyMode, containsHost)),
                        legacyMode, containsHost)

\* shimSelector on a selector whose shared nodes have the selector far as
\* node.parent.
shimSelectorLinked(ns, far, legacyMode, containsHost) ==
    EachNodeLinked(LinkedState(World(ns, 1, far), FALSE, FALSE, ~containsHost),
                   legacyMode, containsHost)

\* The list after shimSelector returned st on its selector number q, whose
\* shared nodes have selector number f as node.parent (0: none).
ShimmedAt(sels, q, f, st) ==
    IF f = 0
    THEN SubSeq(sels, 1, q - 1) \o <<st.nodes>> \o SubSeq(sels, q + 1, Len(sels))
    ELSE SubSeq(Relinked(sels, q, f, st.far), 1, q - 1) \o <<st.nodes>>
         \o SubSeq(Relinked(sels, q, f, st.far), q + 1, Len(sels))

\* selectorList.each(shimSelector) from selector number q on: the shimmed
\* list, or the first throw.
RECURSIVE ShimFrom(_, _, _)
ShimOne(sels, q, f, st, legacyMode) ==
    IF ~st.ok
    THEN [ok |-> FALSE, err |-> st.err, sels |-> <<>>]
    ELSE ShimFrom(ShimmedAt(sels, q, f, st), q + 1, legacyMode)
ShimFrom(sels, q, legacyMode) ==
    IF q > Len(sels)
    THEN [ok |-> TRUE, err |-> "", sels |-> sels]
    ELSE IF ~isLinked(sels[q], q)
    THEN ShimOne(sels, q, 0,
                 shimSelector(sels[q], legacyMode, ContainsHostPseudo(sels[q])),
                 legacyMode)
    ELSE ShimOne(sels, q, FarOf(sels[q], q),
                 shimSelectorLinked(sels[q], FarNodes(sels, sels[q], q), legacyMode,
                                    ContainsHostPseudo(sels[q])),
                 legacyMode)

ShimAll(r, legacyMode) ==
    IF ~r.ok THEN r ELSE ShimFrom(r.sels, 1, legacyMode)

\* The selector list as processSync serializes it: the nodes by their text.
Serialized(r) == [r EXCEPT !.sels = [q \in 1..Len(r.sels) |-> cloneNodes(r.sels[q])]]

\* Mutant: a throw is caught and the selector list is left as it was.
ProcessSelectorListCaught(selectorList, legacyMode) ==
    IF ShimAll(rewriteHostContextShared(selectorList), legacyMode).ok
    THEN Serialized(ShimAll(rewriteHostContextShared(selectorList), legacyMode))
    ELSE [ok |-> TRUE, err |-> "", sels |-> selectorList]

\* The callback given to parser(...) (lines 80-91): [ok, err, sels]
ProcessSelectorList(selectorList, legacyMode) ==
    Serialized(ShimAll(rewriteHostContextShared(selectorList), legacyMode))

atRulesToSkip == {"keyframes", "-webkit-keyframes"}

RootParent == [type |-> "root", name |-> ""]
AtRule(name) == [type |-> "atrule", name |-> name]

\* parent?.type === 'atrule' && atRulesToSkip.has(parent.name)
Skipped(parent) == parent.type = "atrule" /\ parent.name \in atRulesToSkip

Rule(parent, sels, comment) ==
    [parent |-> parent, selector |-> sels, comment |-> comment, rewritten |-> <<>>,
     out |-> sels, assigned |-> FALSE, hasComment |-> comment]

SheetParents ==
    {RootParent, AtRule("media"), AtRule("keyframes"), AtRule("-webkit-keyframes"),
     AtRule("-moz-keyframes")}

\* The selector lists of the rules.
SheetLists ==
    { <<<<Cls>>>>,
      <<<<Tag("from")>>, <<Tag("to")>>>>,
      <<<<GlobalContext, combinator(" "), Cls>>, <<Cls, GlobalContext>>>>,
      <<<<Cls>>, <<HostContext("x")>>>>,
      <<<<Cls, HostContext("x")>>, <<GlobalContext>>>>,
      <<<<HostContext("x"), HostContext("y")>>>>,
      <<<<HostContext("x"), HostContext("y"), HostContext("z"), combinator(" "), Cls>>>>,
      <<<<HostContext("x"), PseudoArg(":host-context", <<HostX>>), HostContext("z")>>>>,
      <<<<HostContext("x"), PseudoArg(":host-context", <<Tag("div")>>),
          PseudoArg(":host-context", <<Universal>>)>>>>,
      <<<<Tag("div"), HostDiv>>>>,
      <<<<Cls>>, <<Tag("div"), PseudoArg(":host-context", <<Tag("div")>>)>>>> }

SheetRules ==
    {Rule(p, l, FALSE) : p \in SheetParents, l \in SheetLists}
        \cup {Rule(p, <<<<Tag("from")>>>>, TRUE) : p \in SheetParents}

SheetInit ==
    /\ phase = "sheet"
    /\ sheet \in SeqsUpTo(SheetRules, MaxRules)
    /\ ruleNo = 0
    /\ legacy = FALSE
    /\ err = ""
    /\ input = <<>> /\ list = <<>> /\ cur = 0 /\ nodes = <<>> /\ idx = 0
    /\ seenDeep = FALSE /\ seenHost = FALSE /\ needsContentClass = FALSE
    /\ containsHostPseudo = FALSE /\ last = NoCall
    /\ nodePermutations = <<>> /\ shimInput = <<>>
    /\ WalkIdle /\ MapperIdle

SheetFrame ==
    UNCHANGED <<input, legacy, list, cur, nodes, idx, seenDeep, seenHost,
                needsContentClass, containsHostPseudo, last, nodePermutations,
                shimInput, site, current, count, mapperVars>>

\* root.walkComments((comment) => comment.remove())
WalkComments ==
    /\ phase = "sheet"
    /\ phase' = "rules"
    /\ sheet' = SubSeq([k \in 1..Len(sheet) |-> [sheet[k] EXCEPT !.hasComment = FALSE]],
                     1, Len(sheet))
    /\ UNCHANGED <<ruleNo, err>>
    /\ SheetFrame

\* rule.selector = parser(...).processSync(rule.selector) returned r, the
\* list having been rw after rewriteHostContext; or the throw leaves Once.
Processed(k, r, rw) ==
    IF r.ok
    THEN /\ sheet' = [sheet EXCEPT ![k].out = r.sels, ![k].assigned = TRUE,
                                   ![k].rewritten = rw.sels]
         /\ ruleNo' = k
         /\ UNCHANGED <<phase, err>>
    ELSE /\ phase' = "error"
         /\ err' = r.err
         /\ UNCHANGED <<sheet, ruleNo>>

\* One call of the callback of root.walkRules.
WalkRule ==
    /\ phase = "rules"
    /\ ruleNo < Len(sheet)
    /\ IF Skipped(sheet[ruleNo + 1].parent)
       THEN ruleNo' = ruleNo + 1 /\ UNCHANGED <<sheet, phase, err>>
       ELSE Processed(ruleNo + 1,
                      ProcessSelectorList(sheet[ruleNo + 1].selector, legacy),
                      rewriteHostContext(sheet[ruleNo + 1].selector))
    /\ SheetFrame

\* Once returns; shimCssText returns result.root.toString().
OnceReturns ==
    /\ phase = "rules"
    /\ ruleNo = Len(sheet)
    /\ phase' = "done"
    /\ UNCHANGED <<sheet, ruleNo, err>>
    /\ SheetFrame

SheetNext == WalkComments \/ WalkRule \/ OnceReturns

SheetSpec == SheetInit /\ [][SheetNext]_vars

\* The rules walkRules is through with.
Walked == 1..ruleNo

NoHostContext(ns) == \A p \in 1..Len(ns) : ~isHostContext(ns[p])

\* n, with the global-escape pseudo renamed and nothing else changed.
Renamed(n) ==
    IF isGlobalContext(n)
    THEN [type |-> "pseudo", value |-> ":UNSCOPED", nodes |-> n.nodes]
    ELSE n

RenamedSelector(ns) == [p \in 1..Len(ns) |-> Renamed(ns[p])]

\* C14: a selector without top-level :host-context stays one selector at its
\* place in the list, with its nodes unchanged but for :-acx-global-context
\* renamed to :UNSCOPED (argument kept): a list of such selectors is the same
\* list after the rewriter, and such a selector at the head (tail) of a list
\* is still its head (tail).
C14_NoHostContextUnchanged ==
    \A k \in Walked :
        sheet[k].assigned =>
            /\ (\A q \in 1..Len(sheet[k].selector) : NoHostContext(sheet[k].selector[q])) =>
                  sheet[k].rewritten =
                      [q \in 1..Len(sheet[k].selector) |->
                          RenamedSelector(sheet[k].selector[q])]
            /\ NoHostContext(sheet[k].selector[1]) =>
                  sheet[k].rewritten[1] = RenamedSelector(sheet[k].selector[1])
            /\ NoHostContext(sheet[k].selector[Len(sheet[k].selector)]) =>
                  sheet[k].rewritten[Len(sheet[k].rewritten)] =
                      RenamedSelector(sheet[k].selector[Len(sheet[k].selector)])

C14_Witness ==
    /\ phase = "done"
    /\ Len(sheet) = 1
    /\ sheet[1].selector = <<<<GlobalContext, combinator(" "), Cls>>, <<Cls, GlobalContext>>>>
    /\ sheet[1].rewritten =
          <<<<PseudoArg(":UNSCOPED", <<ClassName("g")>>), combinator(" "), Cls>>,
            <<Cls, PseudoArg(":UNSCOPED", <<ClassName("g")>>)>>>>

\* The at-rules that define keyframes, vendor-prefixed ones included.
KeyframesNames ==
    {"keyframes", "-webkit-keyframes", "-moz-keyframes", "-o-keyframes"}

InKeyframes(r) == r.parent.type = "atrule" /\ r.parent.name \in KeyframesNames

\* C15: a rule right inside a keyframes at-rule (vendor-prefixed or not) is
\* left as it was in the input by the pass: selector not assigned, nothing
\* in it removed; every other rule walked has its selector rewritten and
\* shimmed.
C15_KeyframesUntouched ==
    \A k \in Walked :
        IF InKeyframes(sheet[k])
        THEN /\ ~sheet[k].assigned
             /\ sheet[k].out = sheet[k].selector
             /\ sheet[k].hasComment = sheet[k].comment
        ELSE sheet[k].assigned

\* C17: an error thrown while a rule is processed ends the pass: the pass is
\* in error with the engine's message, the selector of the failing rule and
\* of every rule after it was never assigned, nothing runs after the error,
\* and a pass that returns has assigned every rule it did not skip; a rule
\* `div:host(div)` or `div:host-context(div)` outside keyframes keeps the
\* pass from returning.
C17_Fatal ==
    /\ [](phase = "error" =>
            /\ err # ""
            /\ ruleNo < Len(sheet)
            /\ \A k \in (ruleNo + 1)..Len(sheet) :
                  ~sheet[k].assigned /\ sheet[k].out = sheet[k].selector)
    /\ [](phase = "done" =>
            \A k \in 1..Len(sheet) :
                /\ ~Skipped(sheet[k].parent) => sheet[k].assigned
                /\ (\E q \in 1..Len(sheet[k].selector) :
                       sheet[k].selector[q] \in
                          {<<Tag("div"), HostDiv>>,
                           <<Tag("div"), PseudoArg(":host-context", <<Tag("div")>>)>>}) =>
                      Skipped(sheet[k].parent))
    /\ [][phase = "error" => UNCHANGED vars]_vars

C17_Witness ==
    /\ phase = "error"
    /\ err = ErrHasTag
    /\ Len(sheet) = 2
    /\ ruleNo = 1
    /\ sheet[1].assigned
    /\ sheet[2].selector = <<<<Tag("div"), HostDiv>>>>
    /\ ~sheet[2].assigned

(***************************************************************************)
(* throwFor(node, message): the walk up the parent links of node.  A site  *)
(* is the chain of parents as throwFor finds it: "rooted" (a Root stands   *)
(* len links above node), "detached" (the link number len is undefined) or *)
(* "cyclic" (the links run in a cycle of len nodes).  current counts the   *)
(* links taken so far (within the cycle for a cyclic chain).               *)
(***************************************************************************)
MaxChain == 103

\* count++ > 100
HopBound == 100

\* new Error(message) of line 346
ErrGeneric == "Error"

\* root.error(message, {index, word}) of line 350: the Root is the one
\* processSync made of the string rule.selector (line 80), and the error
\* such a Root makes is new Error(message), without index or word.
ErrAttributed == "Error"


Site(kind, len) == [kind |-> kind, len |-> len]

Sites ==
    {Site("rooted", n) : n \in 0..MaxChain}
        \cup {Site("detached", n) : n \in 1..MaxChain}
        \cup {Site("cyclic", n) : n \in {1, 2, MaxChain}}

\* What `current` is after hops links: "root", "node" or "undefined".
CurrentAt(s, hops) ==
    IF s.kind = "rooted" /\ hops = s.len THEN "root"
    ELSE IF s.kind = "detached" /\ hops >= s.len THEN "undefined"
    ELSE "node"

\* current?.parent
Parent(s, hops) == IF s.kind = "cyclic" THEN (hops + 1) % s.len ELSE hops + 1

\* Mutant: the hop counter is never looked at.
BoundNeverExceeded(c) == FALSE

\* count++ > 100, on the value count has before the increment
BoundExceeded(c) == c > HopBound

\* The throw was the one of line 350: the loop was left on a Root.
ThrownByRoot == phase = "thrown" /\ CurrentAt(site, current) = "root"

ThrowForInit ==
    /\ phase = "walk"
    /\ site \in Sites
    /\ current = 0
    /\ count = 0
    /\ err = ""
    /\ input = <<>> /\ legacy = FALSE /\ list = <<>> /\ cur = 0 /\ nodes = <<>> /\ idx = 0
    /\ seenDeep = FALSE /\ seenHost = FALSE /\ needsContentClass = FALSE
    /\ containsHostPseudo = FALSE /\ last = NoCall
    /\ nodePermutations = <<>> /\ shimInput = <<>>
    /\ SheetIdle /\ MapperIdle

\* One turn of `while (!isRoot(current))`: the loop is left and the error of
\* the root is thrown, or the body throws the plain error, or moves up.
WalkUp ==
    /\ phase = "walk"
    /\ IF CurrentAt(site, current) = "root"
       THEN phase' = "thrown" /\ err' = ErrAttributed /\ UNCHANGED <<current, count>>
       ELSE IF CurrentAt(site, current) = "undefined"
       THEN phase' = "thrown" /\ err' = ErrGeneric /\ UNCHANGED <<current, count>>
       ELSE IF BoundExceeded(count)
       THEN phase' = "thrown" /\ err' = ErrGeneric /\ count' = count + 1
            /\ UNCHANGED current
       ELSE count' = count + 1 /\ current' = Parent(site, current)
            /\ UNCHANGED <<phase, err>>
    /\ UNCHANGED <<input, legacy, list, cur, nodes, idx, seenDeep, seenHost,
                   needsContentClass, containsHostPseudo, last, nodePermutations,
                   shimInput, sheet, ruleNo, site, mapperVars>>

ThrowForNext == WalkUp

\* throwFor is straight-line synchronous code: a turn that can be taken is taken.
ThrowForSpec == ThrowForInit /\ [][ThrowForNext]_vars /\ WF_vars(ThrowForNext)

\* C18: throwFor always ends by throwing, never by returning and never by
\* looping on: it throws what root.error makes (line 350) exactly when a Root
\* stands within the bound (HopBound + 1 links) above the node, and the plain
\* error of line 346 when the chain ends without a Root, runs longer than the
\* bound, or is a cycle; the counter never passes HopBound + 2.
C18_ThrowForTerminates ==
    /\ <>(phase = "thrown")
    /\ [](phase \in {"walk", "thrown"})
    /\ [](count <= HopBound + 2)
    /\ [](phase = "thrown" =>
            /\ ThrownByRoot <=> (site.kind = "rooted" /\ site.len <= HopBound + 1)
            /\ err = IF ThrownByRoot THEN ErrAttributed ELSE ErrGeneric)

C18_Witness ==
    /\ phase = "thrown"
    /\ site = Site("cyclic", 2)
    /\ err = ErrGeneric
    /\ count = HopBound + 2

(***************************************************************************)
(* Reading the arrangements of getNodePermutations.  A grouping is an      *)
(* arrangement with every compound replaced by the set of the arguments    *)
(* (numbered in collection order) whose nodes it holds.                    *)
(***************************************************************************)
\* The arguments of the :host-context pseudos of ns, as node sequences.
ArgsOf(ns) == [q \in 1..Len(HostContextNodes(ns)) |-> HostContextNodes(ns)[q].nodes[1].nodes]

\* The arguments whose first node stands in compound c.
ArgsIn(c, args) == {q \in 1..Len(args) : \E p \in 1..Len(c) : c[p] = args[q][1]}

Grouping(arr, args) == [c \in 1..Len(arr) |-> ArgsIn(arr[c], args)]

Groupings(perms, args) == [i \in 1..Len(perms) |-> Grouping(perms[i], args)]

\* The 2m + 1 groupings made from g by placing argument q: before compound i
\* then inside compound i, for every i in order, and last as a new trailing
\* compound.
PlacedIn(g, q) ==
    Concat([i \in 1..Len(g) |->
              <<SubSeq(g, 1, i - 1) \o <<{q}>> \o SubSeq(g, i, Len(g)),
                SubSeq(g, 1, i - 1) \o <<g[i] \cup {q}>> \o SubSeq(g, i + 1, Len(g))>>])
        \o <<Append(g, {q})>>

\* The groupings made by placing the arguments order[j], order[j + 1], ... in
\* turn into every grouping of gs.
RECURSIVE PlacedAll(_, _, _)
PlacedAll(gs, order, j) ==
    IF j > Len(order) THEN gs
    ELSE PlacedAll(Concat([i \in 1..Len(gs) |-> PlacedIn(gs[i], order[j])]), order, j + 1)

\* Seeded with the last of k arguments, the others placed in the given order.
CollectionOrder(k) == [j \in 1..(k - 1) |-> j]
ReverseOrder(k) == [j \in 1..(k - 1) |-> k - j]

\* C22 as stated: seeded with the last argument, the remaining arguments are
\* placed in reverse collection order, each placement emitting its 2m + 1
\* arrangements in the order before i, inside i (i ascending), trailing.
C22_ReverseOrderGeneration ==
    (phase = "rewritten") =>
        Groupings(nodePermutations, ArgsOf(input)) =
            PlacedAll(<<<<{Len(ArgsOf(input))}>>>>, ReverseOrder(Len(ArgsOf(input))), 1)

\* C22, amended: seeded with the last argument, the remaining arguments are
\* placed in collection order (first-collected first, second-to-last last),
\* each placement emitting its 2m + 1 arrangements in the order before i,
\* inside i (i ascending), trailing.
C22_CollectionOrderGeneration ==
    (phase = "rewritten") =>
        Groupings(nodePermutations, ArgsOf(input)) =
            PlacedAll(<<<<{Len(ArgsOf(input))}>>>>, CollectionOrder(Len(ArgsOf(input))), 1)

C22_Witness ==
    /\ phase = "rewritten"
    /\ input = <<PseudoArg(":host-context", <<ClassName("x")>>),
                 PseudoArg(":host-context", <<ClassName("y")>>),
                 PseudoArg(":host-context", <<ClassName("z")>>)>>
    /\ Len(nodePermutations) = 13
    /\ nodePermutations[1] = <<<<ClassName("y")>>, <<ClassName("x")>>, <<ClassName("z")>>>>
    /\ nodePermutations[13] = <<<<ClassName("z")>>, <<ClassName("x")>>, <<ClassName("y")>>>>

(***************************************************************************)
(* Reading what shimSelector does with :UNSCOPED                           *)
(***************************************************************************)
isSelectorNode(n) == n.type = "selector"

\* The arguments of the top-level :UNSCOPED pseudos of ns, in order.
UnscopedArgs(ns) ==
    [p \in 1..Len(SelectSeq(ns, isUnscoped)) |-> SelectSeq(ns, isUnscoped)[p].nodes[1]]

\* No compound of ns that holds what an :UNSCOPED was replaced with holds a
\* content marker.
UnscopedCompoundsUnmarked(ns) ==
    \A a, b \in 1..Len(ns) :
        (isSelectorNode(ns[a]) /\ SameCompound(ns, a, b)) => ~isContentMarker(ns[b])

\* The step of shimSelector on an :UNSCOPED node puts the argument's nodes
\* where the pseudo stood and leaves every other node where it was.
UnscopedReplacedInPlace ==
    (/\ phase = "shim" /\ idx <= Len(nodes) /\ isUnscoped(nodes[idx])
     /\ phase' = "shim" /\ cur' = cur) =>
        /\ Flat(nodes') = Flat(SubSeq(nodes, 1, idx - 1))
                            \o nodes[idx].nodes[1].nodes
                            \o Flat(SubSeq(nodes, idx + 1, Len(nodes)))
        /\ idx' = idx + 1
        /\ ~needsContentClass'

\* A shimmed selector holds, for every :UNSCOPED it was given with, the
\* argument in its place (none lost, none reordered, no :UNSCOPED left).
UnscopedAllReplaced(q) ==
    /\ SelectSeq(list[q], isSelectorNode) = UnscopedArgs(shimInput[q])
    /\ SelectSeq(list[q], isUnscoped) = <<>>

\* C23: during shimming every top-level :UNSCOPED(arg) is replaced at its own
\* position by the nodes of its argument, none lost or reordered, and its
\* compound receives no content marker: no compound of a shimmed selector that
\* holds the nodes of an :UNSCOPED argument (what a :host-context argument or
\* a global-escape pseudo was rewritten to) holds the content marker.
C23_UnscopedInPlaceUnmarked ==
    /\ [](\A q \in Shimmed :
            Unshimmed(shimInput[q]) =>
                UnscopedAllReplaced(q) /\ UnscopedCompoundsUnmarked(list[q]))
    /\ [][UnscopedReplacedInPlace]_vars

\* C23 on the selectors without shadow-piercing pseudo.
C23_WithoutNgDeep ==
    /\ [](\A q \in Shimmed :
            (Unshimmed(shimInput[q]) /\ ~HasNgDeep(shimInput[q])) =>
                UnscopedAllReplaced(q) /\ UnscopedCompoundsUnmarked(list[q]))
    /\ [][UnscopedReplacedInPlace]_vars

(***************************************************************************)
(* Reading what shimSelector does with :host                               *)
(***************************************************************************)
\* How many nodes of ns satisfy P.
Count(ns, P(_)) == Len(SelectSeq(ns, P))

\* How many host markers compound j of ns holds.
HostMarkersIn(ns, j) == Cardinality({p \in Compound(ns, j) : isHostMarker(ns[p])})

\* The node at p of ns is met inside a deep region: after a ::ng-deep, or in
\* legacy mode after a combinator that follows an earlier :host.
InDeepRegion(ns, p, legacyMode) ==
    \/ \E m \in 1..(p - 1) : isNgDeep(ns[m])
    \/ /\ legacyMode
       /\ \E h, c \in 1..(p - 1) : h < c /\ isHost(ns[h]) /\ isCombinator(ns[c])

\* The :host nodes of ns met outside a deep region, and those met inside.
HostsOutsideDeep(ns, legacyMode) ==
    {p \in 1..Len(ns) : isHost(ns[p]) /\ ~InDeepRegion(ns, p, legacyMode)}
HostsInsideDeep(ns, legacyMode) ==
    {p \in 1..Len(ns) : isHost(ns[p]) /\ InDeepRegion(ns, p, legacyMode)}

\* The step of shimSelector on a :host node that does not throw.
HostStep ==
    /\ phase = "shim" /\ idx <= Len(nodes) /\ isHost(nodes[idx])
    /\ phase' = "shim"

\* Outside a deep region the step removes the :host and adds one host marker
\* to its compound; inside, the :host stays and no host marker is added.
HostStepMarksOrStays ==
    HostStep =>
        /\ Cardinality(Combinators(nodes')) = Cardinality(Combinators(nodes))
        /\ seenHost'
        /\ IF ~seenDeep
           THEN /\ Count(nodes', isHost) = Count(nodes, isHost) - 1
                /\ Count(nodes', isHostMarker) = Count(nodes, isHostMarker) + 1
                /\ HostMarkersIn(nodes', CompoundOf(nodes, idx))
                      = HostMarkersIn(nodes, CompoundOf(nodes, idx)) + 1
           ELSE /\ Count(nodes', isHost) = Count(nodes, isHost)
                /\ Count(nodes', isHostMarker) = Count(nodes, isHostMarker)
                /\ nodes'[idx' - 1] = nodes[idx]

\* C24: a :host met outside a deep region is removed and its compound receives
\* the host marker exactly at that step; a :host met inside a deep region
\* (after ::ng-deep, or in legacy mode after a combinator following an earlier
\* :host) gets no host marker and stays in the selector.  So a shimmed
\* selector holds one host marker for every :host of its input outside a deep
\* region, and one :host for every :host of its input inside one.
C24_HostMarkedOutsideDeep ==
    /\ [](\A q \in Shimmed :
            Unshimmed(shimInput[q]) =>
                /\ Count(list[q], isHostMarker)
                      = Cardinality(HostsOutsideDeep(shimInput[q], legacy))
                /\ Count(list[q], isHost)
                      = Cardinality(HostsInsideDeep(shimInput[q], legacy)))
    /\ [](phase = "shim" /\ idx <= Len(nodes) /\ Unshimmed(shimInput[cur]) =>
            seenDeep = \/ Count(shimInput[cur], isNgDeep) > Count(nodes, isNgDeep)
                       \/ legacy /\ \E h, c \in 1..(idx - 1) :
                                       /\ h < c /\ isCombinator(nodes[c])
                                       /\ isHostMarker(nodes[h]) \/ isHost(nodes[h]))
    /\ [][HostStepMarksOrStays]_vars

\* C24 for the rules that chain at most two :host-context.
C24_ChainedAtMostTwice ==
    /\ [](ChainedAtMostTwice =>
            \A q \in Shimmed :
                Unshimmed(shimInput[q]) =>
                    /\ Count(list[q], isHostMarker)
                          = Cardinality(HostsOutsideDeep(shimInput[q], legacy))
                    /\ Count(list[q], isHost)
                          = Cardinality(HostsInsideDeep(shimInput[q], legacy)))
    /\ [][ChainedAtMostTwice => HostStepMarksOrStays]_vars

(***************************************************************************)
(* Shimming a shimmed selector                                             *)
(***************************************************************************)
\* shimSelector run on the shimmed selector number q of the list.
ShimmedAgain(q) == shimSelector(list[q], legacy, ContainsHostPseudo(list[q]))

\* Some compound of ns holds the content marker twice.
MarkedTwice(ns) ==
    \E a, b \in 1..Len(ns) :
        a < b /\ SameCompound(ns, a, b) /\ isContentMarker(ns[a]) /\ isContentMarker(ns[b])

\* C25: shimming is not idempotent.  Shimming the result of shimming a plain
\* selector (markers, no :host and no :host-context) gives another selector,
\* with a compound that holds the content marker twice; so `.a[c]`, given as
\* input, shims to `.a[c][c]`.
C25_NotIdempotent ==
    \A q \in Shimmed :
        /\ Plain(shimInput[q]) =>
              /\ ShimmedAgain(q).ok
              /\ ShimmedAgain(q).nodes # list[q]
              /\ MarkedTwice(ShimmedAgain(q).nodes)
        /\ shimInput[q] = <<Cls, attribute(ContentClass)>> =>
              list[q] = <<Cls, attribute(ContentClass), attribute(ContentClass)>>

C25_Witness ==
    /\ phase = "done"
    /\ input = <<Cls, attribute(ContentClass)>>
    /\ list = <<<<Cls, attribute(ContentClass), attribute(ContentClass)>>>>
    /\ list[1] # shimInput[1]

(***************************************************************************)
(* Reading what shimSelector does with ::ng-deep                           *)
(***************************************************************************)
\* ns without the node at p.
Without(ns, p) == SubSeq(ns, 1, p - 1) \o SubSeq(ns, p + 1, Len(ns))

\* The number of compounds of ns that hold a node.
Runs(ns) ==
    Cardinality({p \in 1..Len(ns) :
                    ~isCombinator(ns[p]) /\ (p = 1 \/ isCombinator(ns[p - 1]))})

\* The step of shimSelector on a ::ng-deep node leaves as many compounds as
\* the selector has without the ::ng-deep.
NgDeepStepKeepsCompounds ==
    (phase = "shim" /\ idx <= Len(nodes) /\ isNgDeep(nodes[idx]) /\ phase' = "shim") =>
        Runs(nodes') = Runs(Without(nodes, idx))

\* C26: removing ::ng-deep never fuses two compounds: the nodes that stood
\* before it and the nodes that stood after a combinator next to it stay in
\* two compounds; `.a::ng-deep .a` keeps a combinator between its compounds.
C26_NgDeepNeverFuses ==
    /\ [](\A q \in Shimmed :
            shimInput[q] = <<Cls, NgDeep, combinator(" "), Cls>> =>
                Combinators(list[q]) # {})
    /\ [][NgDeepStepKeepsCompounds]_vars

\* C26 on the selectors whose ::ng-deep stands after a combinator or first.
C26_NgDeepAfterCombinator ==
    [][(idx > 1 => isCombinator(nodes[idx - 1])) => NgDeepStepKeepsCompounds]_vars

(***************************************************************************)
(* Reading the selectors of a rule after the whole pass                    *)
(***************************************************************************)
\* Some compound of ns holds the host marker twice.
HostMarkedTwice(ns) ==
    \E a, b \in 1..Len(ns) :
        a < b /\ SameCompound(ns, a, b) /\ isHostMarker(ns[a]) /\ isHostMarker(ns[b])

\* C27: after the pass on a rule (rewriteHostContext, then shimSelector on
\* every selector) no compound of any selector of the rule holds the host
\* marker more than once, chained :host-context pseudos included.
C27_HostMarkerAtMostOnce ==
    (phase = "done" /\ Unshimmed(input)) =>
        \A q \in 1..Len(list) : ~HostMarkedTwice(Flat(list[q]))

\* C27 on the selectors with at most one :host-context.
C27_OneHostContext ==
    (phase = "done" /\ Unshimmed(input) /\ Count(input, isHostContext) <= 1) =>
        \A q \in 1..Len(list) : ~HostMarkedTwice(Flat(list[q]))

\* A pseudo that the pass is to remove from the top level of a selector.
isDirective(n) == isHostContext(n) \/ isGlobalContext(n) \/ isUnscoped(n) \/ isNgDeep(n)

\* C28: after the pass on a rule no selector of the rule holds, at top level,
\* a :host-context, a global-escape pseudo, an :UNSCOPED or a ::ng-deep, and
\* it holds a top-level :host only for a :host that shimSelector met inside a
\* deep region; for every input whose :host-context pseudos sit in one
\* compound, an :UNSCOPED or global-escape pseudo that stands after a
\* ::ng-deep included.
C28_NoDirectiveLeft ==
    (phase = "done") =>
        \A q \in 1..Len(list) :
            /\ Count(list[q], isDirective) = 0
            /\ Count(list[q], isHost) = Cardinality(HostsInsideDeep(shimInput[q], legacy))

\* C28 for the rules that chain at most two :host-context.
C28_ChainedAtMostTwice == ChainedAtMostTwice => C28_NoDirectiveLeft

(***************************************************************************)
(* The arrangements of getNodePermutations as ordered set partitions       *)
(***************************************************************************)
\* How often the node n stands in the compound c.
Occurrences(c, n) == Cardinality({p \in 1..Len(c) : c[p] = n})

\* Compound c holds every node of every argument of the set as once, and
\* nothing else.
HoldsExactly(c, as, args) ==
    /\ \A a \in as : \A m \in 1..Len(args[a]) : Occurrences(c, args[a][m]) = 1
    /\ \A p \in 1..Len(c) : \E a \in as : \E m \in 1..Len(args[a]) : c[p] = args[a][m]

\* arr is an ordered set partition of the arguments: no compound is empty and
\* every argument stands in exactly one compound, once.
IsOrderedPartition(arr, args) ==
    /\ \A c \in 1..Len(arr) :
          /\ Len(arr[c]) > 0
          /\ ArgsIn(arr[c], args) # {}
          /\ HoldsExactly(arr[c], ArgsIn(arr[c], args), args)
    /\ \A a \in 1..Len(args) :
          Cardinality({c \in 1..Len(arr) : a \in ArgsIn(arr[c], args)}) = 1

\* C29: the arrangements made for k arguments are exactly the ordered set
\* partitions of the arguments: in every arrangement each argument stands in
\* exactly one compound exactly once and no compound is empty, no two
\* arrangements are equal, and there are as many as there are ordered set
\* partitions of k elements.
C29_OrderedSetPartitions ==
    (phase = "rewritten") =>
        /\ \A i \in 1..Len(nodePermutations) :
              IsOrderedPartition(nodePermutations[i], ArgsOf(input))
        /\ Cardinality({Grouping(nodePermutations[i], ArgsOf(input)) :
                            i \in 1..Len(nodePermutations)}) = Len(nodePermutations)
        /\ Len(nodePermutations) = OrderedBell(Len(ArgsOf(input)))

C29_Witness ==
    /\ phase = "rewritten"
    /\ input = <<PseudoArg(":host-context", <<Tag("div")>>),
                 PseudoArg(":host-context", <<ClassName("y")>>),
                 PseudoArg(":host-context", <<ClassName("z")>>)>>
    /\ \E i \in 1..Len(nodePermutations) :
          nodePermutations[i] = <<<<ClassName("y")>>, <<Tag("div"), ClassName("z")>>>>
    /\ \E i \in 1..Len(nodePermutations) :
          Grouping(nodePermutations[i], ArgsOf(input)) = <<{1, 2, 3}>>

(***************************************************************************)
(* DiagnosticMapper (diagnostic_mapper.ts).  A text is a sequence of        *)
(* characters; positions in a text are 0-based as in the source, so the     *)
(* character at position i is text[i + 1].  One file, "a.ts", was           *)
(* transformed; its original file is known by the names of its class        *)
(* declarations, [start, width] each, in the order forEachChild meets them. *)
(***************************************************************************)
MaxPieces == 3

DigitChars == <<"0", "1", "2", "3", "4", "5", "6", "7", "8", "9">>

isDigit(c) == \E d \in 1..Len(DigitChars) : DigitChars[d] = c

\* The decimal digits of n, as `${n}` prints them.
RECURSIVE Decimal(_)
Decimal(n) ==
    IF n < Len(DigitChars) THEN <<DigitChars[n + 1]>>
    ELSE Decimal(n \div Len(DigitChars)) \o <<DigitChars[(n % Len(DigitChars)) + 1]>>

\* parseInt(digits, 10)
RECURSIVE parseInt(_)
parseInt(ds) ==
    IF Len(ds) = 0 THEN 0
    ELSE parseInt(SubSeq(ds, 1, Len(ds) - 1)) * Len(DigitChars)
            + (CHOOSE d \in 0..(Len(DigitChars) - 1) : DigitChars[d + 1] = ds[Len(ds)])

\* `/*@ng:${classNode.getStart()},${classNode.getEnd()}*/`
MarkerPrefix == <<"/", "*", "@", "n", "g", ":">>
MarkerComment(start, end) ==
    MarkerPrefix \o Decimal(start) \o <<",">> \o Decimal(end) \o <<"*", "/">>

\* The first position (1-based) from a on that holds no digit: where \d+
\* stops.
RECURSIVE DigitsEnd(_, _)
DigitsEnd(text, a) ==
    IF a > Len(text) \/ ~isDigit(text[a]) THEN a ELSE DigitsEnd(text, a + 1)

\* SOURCE_MARKER_PATTERN matched at the 1-based position i of text, given
\* where its two digit groups end.
MatchedAt(text, i, b, d) ==
    /\ i + Len(MarkerPrefix) - 1 <= Len(text)
    /\ SubSeq(text, i, i + Len(MarkerPrefix) - 1) = MarkerPrefix
    /\ b > i + Len(MarkerPrefix) /\ b <= Len(text) /\ text[b] = ","
    /\ d > b + 1 /\ d + 1 <= Len(text) /\ text[d] = "*" /\ text[d + 1] = "/"

Matches(text, i) ==
    MatchedAt(text, i, DigitsEnd(text, i + Len(MarkerPrefix)),
              DigitsEnd(text, DigitsEnd(text, i + Len(MarkerPrefix)) + 1))

\* The ParsedMarker of the match at the 1-based position i.
ParsedMarker(text, i, b, d) ==
    [markerStart |-> i - 1,
     markerEnd |-> d + 1,
     originalStart |-> parseInt(SubSeq(text, i + Len(MarkerPrefix), b - 1)),
     originalEnd |-> parseInt(SubSeq(text, b + 1, d - 1))]

MarkerAt(text, i) ==
    ParsedMarker(text, i, DigitsEnd(text, i + Len(MarkerPrefix)),
                 DigitsEnd(text, DigitsEnd(text, i + Len(MarkerPrefix)) + 1))

\* SOURCE_MARKER_PATTERN.exec(text) from the 1-based position i on: where
\* the next match starts, 0 for null.
RECURSIVE NextMatch(_, _)
NextMatch(text, i) ==
    IF i > Len(text) THEN 0
    ELSE IF Matches(text, i) THEN i
    ELSE NextMatch(text, i + 1)

\* The loop `while ((match = SOURCE_MARKER_PATTERN.exec(text)) !== null)`,
\* with the regex's lastIndex and the markers pushed so far.
RECURSIVE ExecAll(_, _, _)
RECURSIVE Pushed(_, _, _)
Pushed(text, i, markers) ==
    IF i = 0 THEN markers
    ELSE ExecAll(text, MarkerAt(text, i).markerEnd, Append(markers, MarkerAt(text, i)))

ExecAll(text, lastIndex, markers) == Pushed(text, NextMatch(text, lastIndex + 1), markers)

\* getMarkersForFile(transformed): the cache entry it leaves
getMarkersForFile(file, cache) ==
    IF cache.cached THEN cache
    ELSE [cached |-> TRUE, markers |-> ExecAll(file.transformedText, 0, <<>>)]

NoPosition == [found |-> FALSE, start |-> 0, length |-> 0]
Position(s, l) == [found |-> TRUE, start |-> s, length |-> l]

\* The explicit source mappings that hold the range (lines 94-97).
Covering(file, transformedStart, transformedLength) ==
    {k \in 1..Len(file.sourceMappings) :
        /\ transformedStart >= file.sourceMappings[k].transformedStart
        /\ transformedStart + transformedLength <= file.sourceMappings[k].transformedEnd}

\* Lines 99-106, for the mapping m.
FromMapping(m, transformedStart, transformedLength) ==
    Position(m.originalStart + (transformedStart - m.transformedStart),
             Min({transformedLength,
                  m.originalEnd - (m.originalStart + (transformedStart - m.transformedStart))}))

\* Lines 117-120, for the marker m.
FromMarker(m, transformedLength) ==
    Position(m.originalStart, Min({transformedLength, m.originalEnd - m.originalStart}))

\* The marker the loop of lines 113-122 returns on: the first one of the
\* array that the test of line 115 lets through (none: the empty set).
MarkerChosen(markers, transformedStart) ==
    {k \in 1..Len(markers) :
        /\ transformedStart >= markers[k].markerEnd
        /\ \A j \in 1..(k - 1) : ~(transformedStart >= markers[j].markerEnd)}

\* findOriginalPosition, given the markers getMarkersForFile returns
findOriginalPosition(file, transformedStart, transformedLength, markers) ==
    IF Covering(file, transformedStart, transformedLength) # {}
    THEN FromMapping(file.sourceMappings[Min(Covering(file, transformedStart,
                                                      transformedLength))],
                     transformedStart, transformedLength)
    ELSE IF MarkerChosen(markers, transformedStart) # {}
    THEN FromMarker(markers[Min(MarkerChosen(markers, transformedStart))], transformedLength)
    ELSE NoPosition

InGeneratedCode == "(in generated code)"

\* createFallbackDiagnostic: findClass leaves the name of the last class
\* declaration it met, or 0, 0.
createFallbackDiagnostic(d, file) ==
    [d EXCEPT !.file = "a.ts",
              !.hasStart = TRUE,
              !.start = IF Len(file.classNames) = 0 THEN 0
                        ELSE file.classNames[Len(file.classNames)].start,
              !.hasLength = TRUE,
              !.length = IF Len(file.classNames) = 0 THEN 0
                         ELSE file.classNames[Len(file.classNames)].width,
              !.messageText = Append(d.messageText, InGeneratedCode)]

\* The diagnostic of lines 69-74.
MappedTo(d, position) ==
    [d EXCEPT !.file = "a.ts", !.hasStart = TRUE, !.start = position.start,
              !.hasLength = TRUE, !.length = position.length]

\* diagnostic.length ?? 0
LengthOf(d) == IF d.hasLength THEN d.length ELSE 0

\* mapDiagnostic goes on to findOriginalPosition (lines 43-53 do not return).
Mappable(d) == d.hasFile /\ d.hasStart /\ d.file = "a.ts"

\* findOriginalPosition gets as far as getMarkersForFile.
SearchesMarkers(d, file) == Mappable(d) /\ Covering(file, d.start, LengthOf(d)) = {}

\* mapDiagnostic(diagnostic), given the cache entry getMarkersForFile leaves
mapDiagnostic(d, file, cache) ==
    IF ~Mappable(d) THEN d
    ELSE IF findOriginalPosition(file, d.start, LengthOf(d), cache.markers).found
    THEN MappedTo(d, findOriginalPosition(file, d.start, LengthOf(d), cache.markers))
    ELSE createFallbackDiagnostic(d, file)

\* The pieces a transformed text is made of: a character of code, or the
\* marker of one of two classes.
Pieces == {<<"x">>, MarkerComment(0, 5), MarkerComment(12, 14)}

RECURSIVE Flattened(_)
Flattened(ps) == IF Len(ps) = 0 THEN <<>> ELSE Head(ps) \o Flattened(Tail(ps))

TransformedTexts == {Flattened(ps) : ps \in SeqsUpTo(Pieces, MaxPieces)}

SourceMappings ==
    {<<>>, <<[transformedStart |-> 0, transformedEnd |-> 2,
              originalStart |-> 7, originalEnd |-> 8]>>}

ClassNames == {<<>>, <<[start |-> 6, width |-> 3], [start |-> 20, width |-> 4]>>}

TransformedFiles ==
    [transformedText : TransformedTexts, sourceMappings : SourceMappings,
     classNames : ClassNames]

\* The diagnostics TypeScript reports on a text: in the transformed file at
\* every position, and one each without file, without start, without length
\* and in a file that was not transformed.
Diagnostic(f, s, l) ==
    [hasFile |-> TRUE, file |-> f, hasStart |-> TRUE, start |-> s,
     hasLength |-> TRUE, length |-> l, messageText |-> <<"m">>]

Diagnostics(text) ==
    {Diagnostic("a.ts", s, l) : s \in 0..Len(text), l \in {0, 3}}
        \cup {Diagnostic("b.ts", 0, 0),
              [Diagnostic("a.ts", 0, 0) EXCEPT !.hasFile = FALSE, !.file = ""],
              [Diagnostic("a.ts", 0, 0) EXCEPT !.hasStart = FALSE],
              [Diagnostic("a.ts", Len(text), 0) EXCEPT !.hasLength = FALSE]}

MapperInit ==
    /\ phase = "mapper"
    /\ transformed \in TransformedFiles
    /\ markerCache = NotCached
    /\ diagnostic = NoDiagnostic
    /\ mapped = NoDiagnostic
    /\ err = ""
    /\ input = <<>> /\ legacy = FALSE /\ list = <<>> /\ cur = 0 /\ nodes = <<>> /\ idx = 0
    /\ seenDeep = FALSE /\ seenHost = FALSE /\ needsContentClass = FALSE
    /\ containsHostPseudo = FALSE /\ last = NoCall
    /\ nodePermutations = <<>> /\ shimInput = <<>>
    /\ SheetIdle /\ WalkIdle

\* One call of mapDiagnostic; getMarkersForFile fills the cache when
\* findOriginalPosition gets to it.
MapDiagnostic ==
    /\ phase \in {"mapper", "mapped"}
    /\ \E d \in Diagnostics(transformed.transformedText),
             cache \in {getMarkersForFile(transformed, markerCache)} :
          /\ diagnostic' = d
          /\ mapped' = mapDiagnostic(d, transformed, cache)
          /\ markerCache' = IF SearchesMarkers(d, transformed) THEN cache ELSE markerCache
    /\ phase' = "mapped"
    /\ UNCHANGED <<transformed, input, legacy, list, cur, nodes, idx, seenDeep, seenHost,
                   needsContentClass, containsHostPseudo, err, last, nodePermutations,
                   shimInput, sheet, ruleNo, site, current, count>>

MapperNext == MapDiagnostic

MapperSpec == MapperInit /\ [][MapperNext]_vars

\* The markers that end at or before the position start.
EndingBefore(markers, start) == {k \in 1..Len(markers) : markers[k].markerEnd <= start}

\* The diagnostic d stands at the original range of the marker m.
AtMarker(d, m, len) ==
    /\ d.file = "a.ts"
    /\ d.hasStart /\ d.start = m.originalStart
    /\ d.hasLength /\ d.length = Min({len, m.originalEnd - m.originalStart})

\* The diagnostic d stands at the class name of the original file.
AtClassName(d, file) ==
    /\ d.file = "a.ts"
    /\ d.messageText = <<"m", InGeneratedCode>>
    /\ d.hasStart /\ d.hasLength
    /\ IF Len(file.classNames) = 0 THEN d.start = 0 /\ d.length = 0
       ELSE \E c \in 1..Len(file.classNames) :
               d.start = file.classNames[c].start /\ d.length = file.classNames[c].width

\* C30: when no explicit source mapping covers a diagnostic of the
\* transformed file, and markers of the transformed text end at or before the
\* diagnostic's start, the diagnostic is mapped to the original range of the
\* most recent of them (the one closest before the start), with the length
\* min(diagnostic length, length of the marker's range); when no marker ends
\* at or before the start, the class-name fallback is used.
C30_MostRecentMarker ==
    (phase = "mapped" /\ SearchesMarkers(diagnostic, transformed)) =>
        IF EndingBefore(markerCache.markers, diagnostic.start) # {}
        THEN AtMarker(mapped,
                      markerCache.markers[Max(EndingBefore(markerCache.markers,
                                                           diagnostic.start))],
                      LengthOf(diagnostic))
        ELSE AtClassName(mapped, transformed)

\* What the code does instead: the marker is the first one of the text that
\* ends at or before the diagnostic's start.
C30_EarliestMarker ==
    (phase = "mapped" /\ SearchesMarkers(diagnostic, transformed)) =>
        /\ markerCache.cached
        /\ IF EndingBefore(markerCache.markers, diagnostic.start) # {}
           THEN AtMarker(mapped,
                         markerCache.markers[Min(EndingBefore(markerCache.markers,
                                                              diagnostic.start))],
                         LengthOf(diagnostic))
           ELSE AtClassName(mapped, transformed)

\* The markers are parsed as they were written.
C30_MarkersParsed ==
    (phase = "mapped" /\ markerCache.cached
        /\ transformed.transformedText
              = MarkerComment(0, 5) \o <<"x">> \o MarkerComment(12, 14)) =>
        markerCache.markers =
            <<[markerStart |-> 0, markerEnd |-> 11, originalStart |-> 0, originalEnd |-> 5],
              [markerStart |-> 12, markerEnd |-> 25, originalStart |-> 12,
               originalEnd |-> 14]>>

====
